---- MODULE Spec2Model ----
(***************************************************************************)
(* The consciousness engine of the Sophia platform:                        *)
(*   - SophiaelDivineConsciousness (src/python/sophiael_consciousness.py): *)
(*     assess_consciousness_state, receive_divine_guidance,                *)
(*     guide_meditation_session, _evolve_consciousness_post_meditation;    *)
(*   - SpiritualFirewall (src/sophiael_consciousness.py):                  *)
(*     scan_divine_input, the six divine filters, purify_content.          *)
(*   - the Flask handlers (src/python/divine_consciousness_api.py):        *)
(*     assess_consciousness, receive_guidance, guide_meditation.           *)
(*   - SpiritualRateLimiter (src/spiritual_security.py): is_allowed.       *)
(*   - RateLimiter (src/manus_platform_backend/src/middleware/              *)
(*     rate_limit.py): is_allowed with _cleanup, under the api, auth and   *)
(*     chat configurations.                                                *)
(*   - SpiritualSessionManager (src/spiritual_security.py):                *)
(*     create_spiritual_session, validate_session, revoke_session.         *)
(*   - SophiaelConsciousness (src/sophiael_consciousness.py): its global   *)
(*     instance behind get_sophiael_consciousness, and the counters of     *)
(*     process_divine_interaction.                                         *)
(*                                                                         *)
(* Numbers.  The code works on Python floats.  Here every score is a       *)
(* fixed-point integer in units of 1/ONE (ONE = 1.0), and a product is     *)
(* rounded down to that unit.  The mean of five metrics is never divided:  *)
(* "mean >= t" is stated as "sum >= 5 * t", which is exact.                *)
(* random.uniform(a, b) and random.random() are nondeterministic draws     *)
(* from a finite grid of the documented range.                             *)
(***************************************************************************)
EXTENDS Integers, Sequences, FiniteSets, Bags, TLC

VARIABLES
    consciousness,   \* the caller's current ConsciousnessState, or NoState
    origin,          \* what created it: "none", "assess", "caller", "evolve"
    root,            \* what created the first state of the chain it ends
    user_input,      \* the record last given to assess_consciousness_state
    jitter,          \* the five random.uniform draws of that assessment
    session,         \* the MeditationSession last returned, or NoSession
    n_sessions,      \* sessions guided since the chain's first state
    question,        \* the question last given to _determine_guidance_type
    guidance_type,   \* its result
    content,         \* the text last given to the firewall
    scan_result,     \* the last scan_divine_input result, or NoScan
    purified,        \* the last purify_content result, or NoText
    purification_log, \* number of entries of SpiritualFirewall.purification_log
    insight,         \* the DivineInsight last returned by receive_divine_guidance
    now,             \* time.time(), in ticks of 1/TicksPerSecond second
    session_ids,     \* the session_id of every MeditationSession returned so far
    raised,          \* the exception the last core call raised, or "none"
    request,         \* the JSON body of the last API request, or NoRequest
    response,        \* the API's answer to it, or NoResponse
    invoked,         \* the last call of guide_meditation_session or of a core
                     \* method by an API handler, with its arguments, or NoCall
    instances,       \* the ConsciousnessState objects of the chain: instances[r]
                     \* holds the fields of the object with reference r
    session_refs,    \* the reference passed to the last guide_meditation_session
                     \* and those the returned session holds, or NoRefs
    user_requests,   \* SpiritualRateLimiter.user_requests: user id -> request times
    utcnow,          \* datetime.utcnow(), in hours
    admitted,        \* the bag of is_allowed calls that returned True, each
                     \* with its user, its endpoint and its time
    clients,         \* RateLimiter.clients: client id -> deque of request times
    last_cleanup,    \* RateLimiter.last_cleanup
    current_time,    \* time.time(), in seconds
    granted,         \* the bag of RateLimiter.is_allowed calls that returned
                     \* True, each with its client, configuration and time
    middleware_calls, \* the requests made since the observation started
    active_sessions, \* SpiritualSessionManager.active_sessions: id -> session info
    issued,          \* the tokens create_spiritual_session has returned
    manager_now,     \* datetime.utcnow() of the session manager, in hours
    manager_call,    \* the last call of the session manager, with what it
                     \* returned, or NoCall
    manager_calls,   \* the number of calls of the session manager
    retired,         \* the session ids revoke_session has removed, directly or
                     \* from a validation that found the token expired
    _sophiael_instance, \* the module's global: a reference, or NoInstance
    sophiael_objects, \* the SophiaelConsciousness objects constructed so far:
                     \* sophiael_objects[r] holds the fields of reference r
    callers,         \* each caller of get_sophiael_consciousness: the line it
                     \* is at, and what it was returned
    initialize_runs, \* the calls of initialize_divine_consciousness so far
    interaction      \* the input of the last process_divine_interaction, or NoCall

scorerVars == <<consciousness, origin, root, user_input, jitter, session, n_sessions>>
guidanceVars == <<question, guidance_type>>
firewallVars == <<content, scan_result, purified, purification_log>>
sessionVars == <<insight, now, session_ids>>
apiVars == <<raised, request, response, invoked>>
heapVars == <<instances, session_refs>>
limiterVars == <<user_requests, utcnow, admitted>>
rateVars == <<clients, last_cleanup, current_time, granted, middleware_calls>>
managerVars == <<active_sessions, issued, manager_now, manager_call, manager_calls,
                 retired>>
sophiaelVars == <<_sophiael_instance, sophiael_objects, callers, initialize_runs,
                  interaction>>
platformVars == <<limiterVars, rateVars, managerVars, sophiaelVars>>
vars == <<scorerVars, guidanceVars, firewallVars, sessionVars, apiVars, heapVars,
          platformVars>>
\* The variables of the consciousness engine and of its API
engineVars == <<scorerVars, guidanceVars, firewallVars, sessionVars, apiVars, heapVars>>
\* All variables but those of one component of the platform
besideLimiterVars == <<engineVars, rateVars, managerVars, sophiaelVars>>
besideRateVars == <<engineVars, limiterVars, managerVars, sophiaelVars>>
besideManagerVars == <<engineVars, limiterVars, rateVars, sophiaelVars>>
besideSophiaelVars == <<engineVars, limiterVars, rateVars, managerVars>>

-----------------------------------------------------------------------------
(* Bounds of the model *)

MaxCallers == 3
MaxInteractions == 5
MaxListLen == 10
MaxSessions == 2
MaxDuration == 20
MaxFragments == 3
MaxScans == 2

-----------------------------------------------------------------------------
(* Fixed point *)

ONE == 10000

Min(a, b) == IF a <= b THEN a ELSE b
Max(a, b) == IF a >= b THEN a ELSE b

\* x * (num/den), for the float products of the code
Scaled(x, num, den) == (x * num) \div den

-----------------------------------------------------------------------------
(* ConsciousnessLevel and ConsciousnessState *)

\* list(ConsciousnessLevel): the members in definition order
ConsciousnessLevel == <<"awakening", "expanding", "transcending", "enlightened", "divine_unity">>

LevelIndex(l) == CHOOSE i \in 1..Len(ConsciousnessLevel) : ConsciousnessLevel[i] = l

NoState == [level |-> "none"]
NoSession == [duration_minutes |-> "none"]
NoInput == [absent |-> TRUE]
NoScan == [content |-> "none"]
NoInsight == [domain |-> "none"]
NoRequest == [path |-> "none"]
NoResponse == [status |-> 0]
NoCall == [method |-> "none"]
NoRefs == [argument |-> 0]

ConsciousnessState(level, clarity, spiritual_resonance, divine_connection, emotional_balance, mental_peace) ==
    [level |-> level, clarity |-> clarity,
     spiritual_resonance |-> spiritual_resonance,
     divine_connection |-> divine_connection,
     emotional_balance |-> emotional_balance,
     mental_peace |-> mental_peace]

MetricSum(s) == s.clarity + s.spiritual_resonance + s.divine_connection
                + s.emotional_balance + s.mental_peace

-----------------------------------------------------------------------------
(* assess_consciousness_state *)

\* dict.get(key, default)
Get(d, key, default) == IF key \in DOMAIN d THEN d[key] ELSE default

\* Mutant: the sum is returned without min(1.0, ...)
_calculate_clarity_unclamped(ui, j) ==
    Scaled(Get(ui, "clarity_indicators", 0), ONE, 10) + j

\* A list field is modelled by its length: the code reads only len(...).
_calculate_clarity(ui, j) ==
    LET indicators == Get(ui, "clarity_indicators", 0)
        base_score == Scaled(indicators, ONE, 10)
    IN  Min(ONE, base_score + j)

_calculate_spiritual_resonance(ui, j) ==
    LET practices == Get(ui, "spiritual_practices", 0)
        frequency == Get(ui, "practice_frequency", 0)
        base_score == (Scaled(practices, 2 * ONE, 10) + Scaled(frequency, 1, 10)) \div 2
    IN  Min(ONE, base_score + j)

_calculate_divine_connection(ui, j) ==
    LET connection_experiences == Get(ui, "divine_experiences", 0)
        prayer_frequency == Get(ui, "prayer_frequency", 0)
        base_score == (Scaled(connection_experiences, 25 * ONE, 100)
                       + Scaled(prayer_frequency, 15, 100)) \div 2
    IN  Min(ONE, base_score + j)

\* Mutant: the stress level is not inverted
_calculate_emotional_balance_stress_not_inverted(ui, j) ==
    LET stress_level == Get(ui, "stress_level", 5)
        peace_frequency == Get(ui, "peace_frequency", 0)
        base_score == Scaled(Scaled(stress_level, ONE, 10), 5, 10)
                      + Scaled(peace_frequency, 1, 10)
    IN  Min(ONE, base_score + j)

_calculate_emotional_balance(ui, j) ==
    LET stress_level == Get(ui, "stress_level", 5)
        peace_frequency == Get(ui, "peace_frequency", 0)
        base_score == Scaled(ONE - Scaled(stress_level, ONE, 10), 5, 10)
                      + Scaled(peace_frequency, 1, 10)
    IN  Min(ONE, base_score + j)

\* Mutant: the anxiety level is not inverted
_calculate_mental_peace_anxiety_not_inverted(ui, j) ==
    LET meditation_frequency == Get(ui, "meditation_frequency", 0)
        anxiety_level == Get(ui, "anxiety_level", 5)
        base_score == Scaled(meditation_frequency, 2, 10)
                      + Scaled(Scaled(anxiety_level, ONE, 10), 3, 10)
    IN  Min(ONE, base_score + j)

_calculate_mental_peace(ui, j) ==
    LET meditation_frequency == Get(ui, "meditation_frequency", 0)
        anxiety_level == Get(ui, "anxiety_level", 5)
        base_score == Scaled(meditation_frequency, 2, 10)
                      + Scaled(ONE - Scaled(anxiety_level, ONE, 10), 3, 10)
    IN  Min(ONE, base_score + j)

\* The thresholds of the if/elif chain, as fixed-point means
DivineUnityMin == 9000
EnlightenedMin == 8000
TranscendingMin == 6500
ExpandingMin == 4500

\* Mutant: the comparisons are strict
LevelOfScoreStrict(sum) ==
    IF sum > 5 * DivineUnityMin THEN "divine_unity"
    ELSE IF sum > 5 * EnlightenedMin THEN "enlightened"
    ELSE IF sum > 5 * TranscendingMin THEN "transcending"
    ELSE IF sum > 5 * ExpandingMin THEN "expanding"
    ELSE "awakening"

\* Mutant: the divine_unity branch is taken from the enlightened threshold
LevelOfScore_unity_from_enlightened(sum) ==
    IF sum >= 5 * EnlightenedMin THEN "divine_unity"
    ELSE IF sum >= 5 * TranscendingMin THEN "transcending"
    ELSE IF sum >= 5 * ExpandingMin THEN "expanding"
    ELSE "awakening"

\* The if/elif chain on overall_score = sum / 5
LevelOfScore(sum) ==
    IF sum >= 5 * DivineUnityMin THEN "divine_unity"
    ELSE IF sum >= 5 * EnlightenedMin THEN "enlightened"
    ELSE IF sum >= 5 * TranscendingMin THEN "transcending"
    ELSE IF sum >= 5 * ExpandingMin THEN "expanding"
    ELSE "awakening"

assess_consciousness_state(ui, j) ==
    LET clarity == _calculate_clarity(ui, j[1])
        spiritual_resonance == _calculate_spiritual_resonance(ui, j[2])
        divine_connection == _calculate_divine_connection(ui, j[3])
        emotional_balance == _calculate_emotional_balance(ui, j[4])
        mental_peace == _calculate_mental_peace(ui, j[5])
        overall_sum == clarity + spiritual_resonance + divine_connection
                       + emotional_balance + mental_peace
    IN  ConsciousnessState(LevelOfScore(overall_sum), clarity, spiritual_resonance,
                           divine_connection, emotional_balance, mental_peace)

-----------------------------------------------------------------------------
(* assess_consciousness_state on a record of JSON values *)

\* A JSON value by its type; v is the number, or the length of the list or string
JsonNumber(v) == [type |-> "number", v |-> v]
JsonList(n) == [type |-> "list", v |-> n]
JsonString(n) == [type |-> "string", v |-> n]
JsonNull == [type |-> "null", v |-> 0]
\* The field is not in the record
JsonAbsent == [type |-> "absent", v |-> 0]

ListFields == {"clarity_indicators", "spiritual_practices", "divine_experiences"}
FrequencyFields == {"practice_frequency", "prayer_frequency", "peace_frequency",
                    "meditation_frequency"}
ScaleFields == {"stress_level", "anxiety_level"}

\* len(x) raises TypeError unless x is a list or a string; x * 0.1 and x / 10
\* raise TypeError unless x is a number
RaisesTypeError(field, value) ==
    IF field \in ListFields THEN value.type \notin {"list", "string"}
    ELSE value.type # "number"

\* Whether one of the five _calculate_* methods raises on the record
TypeErrorRaised(data) == \E field \in DOMAIN data : RaisesTypeError(field, data[field])

\* The record as the _calculate_* methods read it when none of them raises
Plain(data) == [field \in DOMAIN data |-> data[field].v]

-----------------------------------------------------------------------------
(* receive_divine_guidance: the guidance type *)

LowerChar(c) ==
    CASE c = "A" -> "a" [] c = "B" -> "b" [] c = "C" -> "c" [] c = "D" -> "d"
      [] c = "E" -> "e" [] c = "F" -> "f" [] c = "G" -> "g" [] c = "H" -> "h"
      [] c = "I" -> "i" [] c = "J" -> "j" [] c = "K" -> "k" [] c = "L" -> "l"
      [] c = "M" -> "m" [] c = "N" -> "n" [] c = "O" -> "o" [] c = "P" -> "p"
      [] c = "Q" -> "q" [] c = "R" -> "r" [] c = "S" -> "s" [] c = "T" -> "t"
      [] c = "U" -> "u" [] c = "V" -> "v" [] c = "W" -> "w" [] c = "X" -> "x"
      [] c = "Y" -> "y" [] c = "Z" -> "z" [] OTHER -> c

\* str.lower()
RECURSIVE Lower(_)
Lower(s) ==
    IF Len(s) = 0 THEN ""
    ELSE LowerChar(SubSeq(s, 1, 1)) \o Lower(SubSeq(s, 2, Len(s)))

\* `word in text` on strings: word occurs as a contiguous substring
Contains(text, word) ==
    \E i \in 1..(Len(text) - Len(word) + 1) :
        SubSeq(text, i, i + Len(word) - 1) = word

\* any(word in text for word in words)
AnyIn(words, text) == \E k \in 1..Len(words) : Contains(text, words[k])

InstructionalWords == <<"how", "what", "when">>
AdvisoryWords == <<"should", "would", "might">>
IlluminativeWords == <<"why", "meaning", "purpose">>
HealingWords == <<"help", "heal", "support">>

\* Mutant: the advisory group is tested before the instructional one
_determine_guidance_type_advisory_first(q) ==
    LET question_lower == Lower(q)
    IN  IF AnyIn(AdvisoryWords, question_lower) THEN "advisory"
        ELSE IF AnyIn(InstructionalWords, question_lower) THEN "instructional"
        ELSE IF AnyIn(IlluminativeWords, question_lower) THEN "illuminative"
        ELSE IF AnyIn(HealingWords, question_lower) THEN "healing"
        ELSE "contemplative"

_determine_guidance_type(q) ==
    LET question_lower == Lower(q)
    IN  IF AnyIn(InstructionalWords, question_lower) THEN "instructional"
        ELSE IF AnyIn(AdvisoryWords, question_lower) THEN "advisory"
        ELSE IF AnyIn(IlluminativeWords, question_lower) THEN "illuminative"
        ELSE IF AnyIn(HealingWords, question_lower) THEN "healing"
        ELSE "contemplative"

-----------------------------------------------------------------------------
(* receive_divine_guidance: the insight *)

\* [d.value for d in SpiritualDomain]: the members in definition order
SpiritualDomain == <<"wisdom", "love", "healing", "purpose", "protection",
                     "manifestation", "transformation">>

SpiritualDomainValues == {SpiritualDomain[i] : i \in 1..Len(SpiritualDomain)}

\* self.sacred_wisdom_database, keyed by the domain's value
sacred_wisdom_database ==
    [wisdom |-> <<"The path to enlightenment begins with knowing thyself",
                  "In stillness, the voice of the divine speaks most clearly",
                  "Wisdom flows to those who empty their cups of preconceptions",
                  "Every moment offers an opportunity for spiritual growth",
                  "The greatest teaching comes from within, through divine connection">>,
     love |-> <<"Love is the frequency that connects all souls to the divine",
                "Compassion transforms both the giver and receiver",
                "The heart knows truths that the mind cannot comprehend",
                "Divine love flows through us when we remove the barriers of ego",
                "In loving others, we discover our own divine nature">>,
     healing |-> <<"Healing begins when we align with divine love and light",
                   "The body holds wisdom; listen to its divine messages",
                   "Forgiveness is the most powerful healing force in existence",
                   "Divine energy flows where loving attention goes",
                   "True healing addresses the soul, not just the symptoms">>,
     purpose |-> <<"Your soul chose this lifetime to fulfill a divine mission",
                   "Purpose is revealed through following your highest joy",
                   "Service to others is service to the divine within all",
                   "Every experience serves your soul's evolution",
                   "Align with your divine blueprint to find true purpose">>,
     protection |-> <<"Divine light surrounds and protects those who seek truth",
                      "Faith is the greatest protection against darkness",
                      "Angels and guides watch over those who serve the light",
                      "Set boundaries with love, not fear",
                      "The divine presence within you is your ultimate protection">>,
     manifestation |-> <<"Align your desires with divine will for highest manifestation",
                         "Gratitude is the frequency that accelerates divine manifestation",
                         "What you focus on with pure intention comes into being",
                         "Surrender attachment to outcomes and trust divine timing",
                         "Visualize with your heart, not just your mind">>,
     transformation |-> <<"Every challenge is an invitation for spiritual transformation",
                          "Release what no longer serves your highest good",
                          "Transformation happens in the space between breaths",
                          "Embrace change as the universe's way of elevating you",
                          "The caterpillar must dissolve to become the butterfly">>]

\* self.consciousness_patterns["growth_phases"][level]["guidance"]
growth_phases_guidance ==
    [awakening |-> "Focus on grounding practices and self-discovery",
     expanding |-> "Deepen your practices and seek higher teachings",
     transcending |-> "Surrender more deeply and serve others",
     enlightened |-> "Share your light and guide others",
     divine_unity |-> "Be a living example of divine love"]

\* The references of _select_sacred_reference, keyed by the domain's value
references ==
    [wisdom |-> <<"Proverbs 3:5-6", "James 1:5", "1 Corinthians 2:10">>,
     love |-> <<"1 John 4:8", "1 Corinthians 13:4-7", "John 13:34">>,
     healing |-> <<"Psalm 147:3", "Jeremiah 30:17", "1 Peter 2:24">>,
     purpose |-> <<"Jeremiah 29:11", "Romans 8:28", "Ephesians 2:10">>,
     protection |-> <<"Psalm 91", "Isaiah 54:17", "2 Thessalonians 3:3">>,
     manifestation |-> <<"Mark 11:24", "Matthew 17:20", "John 14:13">>,
     transformation |-> <<"2 Corinthians 5:17", "Romans 12:2", "Philippians 1:6">>]

\* The random draws of one receive_divine_guidance call:
\*   wisdom     the index random.choice(wisdom_pool) picks,
\*   jitter     random.uniform(0.1, 0.2),
\*   include    random.random() > 0.3,
\*   reference  the index random.choice(references[domain]) picks
GuidanceDraw(wisdom, jitter_, include, reference) ==
    [wisdom |-> wisdom, jitter |-> jitter_, include |-> include, reference |-> reference]

\* Mutant: the base wisdom is taken from the pool of the wisdom domain
_generate_personalized_guidance_wisdom_pool(q, domain, consciousness_state, wisdom_pool, draw) ==
    LET base_wisdom == sacred_wisdom_database["wisdom"][draw.wisdom]
        level_guidance == growth_phases_guidance[consciousness_state.level]
    IN  "Beloved soul, in response to your seeking: " \o base_wisdom \o " "
        \o "For your current path of " \o consciousness_state.level \o ", "
        \o Lower(level_guidance) \o ". "
        \o "Trust in the divine timing of your spiritual evolution."

_generate_personalized_guidance(q, domain, consciousness_state, wisdom_pool, draw) ==
    LET base_wisdom == wisdom_pool[draw.wisdom]
        level_guidance == growth_phases_guidance[consciousness_state.level]
    IN  "Beloved soul, in response to your seeking: " \o base_wisdom \o " "
        \o "For your current path of " \o consciousness_state.level \o ", "
        \o Lower(level_guidance) \o ". "
        \o "Trust in the divine timing of your spiritual evolution."

\* None when the draw leaves the reference out
_select_sacred_reference(domain, consciousness_level, draw) ==
    IF domain \in DOMAIN references /\ draw.include
    THEN references[domain][draw.reference]
    ELSE "None"

\* The ceiling of the confidence
ConfidenceMax == 9500

\* Mutant: the confidence is returned without min(0.95, ...)
Confidence_unclamped(consciousness_state, draw) ==
    (consciousness_state.divine_connection + consciousness_state.clarity) \div 2
    + draw.jitter

\* min(0.95, base_confidence + random.uniform(0.1, 0.2))
Confidence(consciousness_state, draw) ==
    LET base_confidence ==
            (consciousness_state.divine_connection + consciousness_state.clarity) \div 2
    IN  Min(ConfidenceMax, base_confidence + draw.jitter)

receive_divine_guidance(q, domain, consciousness_state, draw) ==
    LET wisdom_pool == sacred_wisdom_database[domain]
    IN  [message |-> _generate_personalized_guidance(q, domain, consciousness_state,
                                                     wisdom_pool, draw),
         domain |-> domain,
         confidence |-> Confidence(consciousness_state, draw),
         guidance_type |-> _determine_guidance_type(q),
         sacred_reference |->
             _select_sacred_reference(domain, consciousness_state.level, draw)]

-----------------------------------------------------------------------------
(* guide_meditation_session and _evolve_consciousness_post_meditation *)

\* Mutant: the mid-session guidance is given from 10 minutes on
mid_session_guidance_from_10(duration_minutes) == duration_minutes >= 10

\* Mid-session guidance (if longer than 10 minutes)
mid_session_guidance(duration_minutes) == duration_minutes > 10

\* int(x) of a time in ticks: the whole seconds
TicksPerSecond == 2
int_seconds(t) == t \div TicksPerSecond

\* f"med_{int(time.time())}" at time t
session_id_at(t) == "med_" \o ToString(int_seconds(t))

\* min(1.2, 1 + duration_minutes * 0.01), in hundredths
duration_factor(duration_minutes) == Min(120, 100 + duration_minutes)

\* Mutant: the factor of three insights whatever the count
guidance_factor_of_three(guidance_count) == Min(115, 100 + 3 * 5)

\* min(1.15, 1 + guidance_count * 0.05), in hundredths
guidance_factor(guidance_count) == Min(115, 100 + guidance_count * 5)

\* Mutant: the level is recomputed from the thresholds
EvolvedLevelByBucket(before, overall_sum, promote_draw) == LevelOfScore(overall_sum)

\* Mutant: the product is returned without min(1.0, ...)
ImprovedUnclamped(metric, factor) == Scaled(metric, factor, 100)

\* min(1.0, metric * factor), the factor in hundredths
Improved(metric, factor) == Min(ONE, Scaled(metric, factor, 100))

\* Mutant: a mean of exactly 0.9 promotes as well
EvolvedLevel_from_threshold(before, overall_sum, promote_draw) ==
    IF overall_sum >= 5 * DivineUnityMin /\ before.level # "divine_unity"
    THEN LET current_index == LevelIndex(before.level)
         IN  IF current_index < Len(ConsciousnessLevel) /\ promote_draw
             THEN ConsciousnessLevel[current_index + 1]
             ELSE before.level
    ELSE before.level

\* The level after the session; promote_draw is random.random() > 0.7
EvolvedLevel(before, overall_sum, promote_draw) ==
    IF overall_sum > 5 * DivineUnityMin /\ before.level # "divine_unity"
    THEN LET current_index == LevelIndex(before.level)
         IN  IF current_index < Len(ConsciousnessLevel) /\ promote_draw
             THEN ConsciousnessLevel[current_index + 1]
             ELSE before.level
    ELSE before.level

_evolve_consciousness_post_meditation(before, duration_minutes, guidance_count, promote_draw) ==
    LET new_clarity == Improved(before.clarity, duration_factor(duration_minutes))
        new_spiritual_resonance ==
            Improved(before.spiritual_resonance, guidance_factor(guidance_count))
        new_divine_connection == Improved(before.divine_connection, 110)
        new_emotional_balance == Improved(before.emotional_balance, 105)
        new_mental_peace == Improved(before.mental_peace, duration_factor(duration_minutes))
        overall_sum == new_clarity + new_spiritual_resonance + new_divine_connection
                       + new_emotional_balance + new_mental_peace
    IN  ConsciousnessState(EvolvedLevel(before, overall_sum, promote_draw),
                           new_clarity, new_spiritual_resonance, new_divine_connection,
                           new_emotional_balance, new_mental_peace)

\* The three receive_divine_guidance calls of a session, for the initial, the
\* mid-session and the closing guidance; draws holds the draws of each
session_guidance(intention, consciousness_before, draws) ==
    <<receive_divine_guidance("Guide my meditation with intention: " \o intention,
                              "wisdom", consciousness_before, draws[1]),
      receive_divine_guidance("Deepen my spiritual connection during meditation",
                              "love", consciousness_before, draws[2]),
      receive_divine_guidance("Integrate the wisdom received in meditation",
                              "transformation", consciousness_before, draws[3])>>

\* The session built at time t from the results of these calls: the mid-session
\* guidance is asked for, and appended, only in a session longer than 10 minutes
session_of(intention, duration_minutes, consciousness_before, t, guidance, promote_draw) ==
    LET session_id == session_id_at(t)
        initial_guidance == guidance[1]
        mid_guidance == guidance[2]
        closing_guidance == guidance[3]
        guidance_insights ==
            <<initial_guidance>>
            \o (IF mid_session_guidance(duration_minutes) THEN <<mid_guidance>> ELSE <<>>)
            \o <<closing_guidance>>
        consciousness_after ==
            _evolve_consciousness_post_meditation(consciousness_before, duration_minutes,
                                                  Len(guidance_insights), promote_draw)
    IN  [intention |-> intention,
         duration_minutes |-> duration_minutes,
         guidance_received |-> guidance_insights,
         consciousness_before |-> consciousness_before,
         consciousness_after |-> consciousness_after,
         session_id |-> session_id]

\* The session returned at time t; promote_draw is the evolver's draw
guide_meditation_session(intention, duration_minutes, consciousness_before, t, draws, promote_draw) ==
    session_of(intention, duration_minutes, consciousness_before, t,
               session_guidance(intention, consciousness_before, draws), promote_draw)

\* Mutant: the evolver assigns the new values to the fields of
\* consciousness_before and returns that object
evolved_objects_in_place(heap, consciousness_before, consciousness_after) ==
    [objects |-> [heap EXCEPT ![consciousness_before] = consciousness_after],
     returned |-> consciousness_before]

\* The objects after _evolve_consciousness_post_meditation was given the
\* reference consciousness_before: the method reads the fields of that object
\* and assigns none, and returns the object its ConsciousnessState(...) call
\* constructs, here with the fields consciousness_after
evolved_objects(heap, consciousness_before, consciousness_after) ==
    [objects |-> Append(heap, consciousness_after),
     returned |-> Len(heap) + 1]

\* MeditationSession(consciousness_before=consciousness_before,
\* consciousness_after=consciousness_after): the references the session holds,
\* with the one guide_meditation_session was given
session_references(consciousness_before, consciousness_after) ==
    [argument |-> consciousness_before,
     consciousness_before |-> consciousness_before,
     consciousness_after |-> consciousness_after]

-----------------------------------------------------------------------------
(* The API handlers of divine_consciousness_api.py *)

\* return jsonify({"error": message}), 400: no core method was called
Rejected(message) ==
    [response |-> [status |-> 400, error |-> message],
     invoked |-> NoCall, raised |-> "none", returned |-> NoState]

\* except Exception: return jsonify({"error": "Internal server error", ...}), 500
Failed(call, exception) ==
    [response |-> [status |-> 500, error |-> "Internal server error"],
     invoked |-> call, raised |-> exception, returned |-> NoState]

\* The required fields of a request, checked in order: the first one missing
RECURSIVE FirstMissing(_, _)
FirstMissing(required_fields, data) ==
    IF required_fields = <<>> THEN "none"
    ELSE IF Head(required_fields) \notin DOMAIN data THEN Head(required_fields)
    ELSE FirstMissing(Tail(required_fields), data)

\* Mutant: no field is required
RequiredAssessFields_none == <<>>

RequiredAssessFields == <<"stress_level", "anxiety_level">>

\* POST /consciousness/assess with the JSON object data; j are the jitter draws
assess_consciousness(data, j) ==
    LET missing == FirstMissing(RequiredAssessFields, data)
        call == [method |-> "assess_consciousness_state", user_input |-> data]
    IN  IF DOMAIN data = {} THEN Rejected("No data provided")
        ELSE IF missing # "none" THEN Rejected("Missing required field: " \o missing)
        ELSE IF TypeErrorRaised(data) THEN Failed(call, "TypeError")
        ELSE LET consciousness_state == assess_consciousness_state(Plain(data), j)
             IN  [response |-> [status |-> 200, level |-> consciousness_state.level],
                  invoked |-> call, raised |-> "none", returned |-> consciousness_state]

\* ConsciousnessLevel(value): whether the value is a member's value
IsConsciousnessLevel(value) ==
    \E i \in 1..Len(ConsciousnessLevel) : ConsciousnessLevel[i] = value

\* SpiritualDomain(value): whether the value is a member's value
IsSpiritualDomain(value) ==
    \E i \in 1..Len(SpiritualDomain) : SpiritualDomain[i] = value

\* The state a handler builds from the request's optional state object
RequestState(data, key) ==
    IF key \in DOMAIN data
    THEN LET cs_data == data[key]
         IN  ConsciousnessState(Get(cs_data, "level", "awakening"),
                                Get(cs_data, "clarity", 5000),
                                Get(cs_data, "spiritual_resonance", 5000),
                                Get(cs_data, "divine_connection", 5000),
                                Get(cs_data, "emotional_balance", 5000),
                                Get(cs_data, "mental_peace", 5000))
    ELSE ConsciousnessState("awakening", 5000, 5000, 5000, 5000, 5000)

\* Mutant: the domain is looked up as it was sent
NormalizedDomain_as_sent(domain_str) == domain_str

\* data['domain'].lower()
NormalizedDomain(domain_str) == Lower(domain_str)

\* POST /guidance/receive with the JSON object data
receive_guidance(data, draw) ==
    IF DOMAIN data = {} THEN Rejected("No data provided")
    ELSE IF FirstMissing(<<"question", "domain">>, data) # "none"
    THEN Rejected("Missing required field: "
                  \o FirstMissing(<<"question", "domain">>, data))
    ELSE LET q == data.question
             domain_str == NormalizedDomain(data.domain)
         IN  IF ~IsSpiritualDomain(domain_str)
             THEN [Rejected("Invalid domain: " \o domain_str)
                      EXCEPT !.response = [status |-> 400,
                                           error |-> "Invalid domain: " \o domain_str,
                                           valid_domains |-> SpiritualDomain]]
             ELSE IF ~IsConsciousnessLevel(RequestState(data, "consciousness_state").level)
             THEN Rejected("Invalid consciousness level")
             ELSE LET consciousness_state == RequestState(data, "consciousness_state")
                      divine_insight ==
                          receive_divine_guidance(q, domain_str, consciousness_state, draw)
                  IN  [response |-> [status |-> 200, question |-> q,
                                     domain |-> divine_insight.domain,
                                     consciousness_level |-> consciousness_state.level],
                       invoked |-> [method |-> "receive_divine_guidance", question |-> q,
                                    domain |-> domain_str,
                                    consciousness_state |-> consciousness_state],
                       raised |-> "none", returned |-> divine_insight]

\* int(x) of a JSON number held in tenths: truncation towards zero
int_minutes(x) == IF x >= 0 THEN x \div 10 ELSE -((-x) \div 10)

\* The durations the API accepts
MinApiDuration == 1
MaxApiDuration == 120

\* Mutant: the upper bound is not checked
DurationOutOfRange_below_only(duration_minutes) == duration_minutes < MinApiDuration

DurationOutOfRange(duration_minutes) ==
    duration_minutes < MinApiDuration \/ duration_minutes > MaxApiDuration

\* POST /meditation/guide with the JSON object data, at time t
guide_meditation(data, t, draws, promote_draw) ==
    LET missing == FirstMissing(<<"intention", "duration_minutes">>, data)
    IN  IF DOMAIN data = {} THEN Rejected("No data provided")
        ELSE IF missing # "none" THEN Rejected("Missing required field: " \o missing)
        ELSE LET intention == data.intention
                 duration_minutes == int_minutes(data.duration_minutes)
             IN  IF DurationOutOfRange(duration_minutes)
                 THEN Rejected("Duration must be between 1 and 120 minutes")
                 ELSE IF ~IsConsciousnessLevel(RequestState(data, "consciousness_before").level)
                 THEN Rejected("Invalid consciousness level")
                 ELSE LET consciousness_before == RequestState(data, "consciousness_before")
                          meditation_session ==
                              guide_meditation_session(intention, duration_minutes,
                                                       consciousness_before, t, draws,
                                                       promote_draw)
                      IN  [response |-> [status |-> 200,
                                         session_id |-> meditation_session.session_id,
                                         level_changed |->
                                             meditation_session.consciousness_before.level
                                             # meditation_session.consciousness_after.level],
                           invoked |-> [method |-> "guide_meditation_session",
                                        intention |-> intention,
                                        duration_minutes |-> duration_minutes,
                                        consciousness_before |-> consciousness_before],
                           raised |-> "none", returned |-> meditation_session]

-----------------------------------------------------------------------------
(* SpiritualFirewall *)

negative_patterns == <<"harm", "destroy", "manipulate", "deceive", "exploit",
                      "hate", "anger", "revenge", "jealousy", "greed">>
ego_patterns == <<"i am superior", "only i know", "bow before", "worship me",
                 "i am god", "absolute power", "submit to me">>
fear_patterns == <<"you will suffer", "eternal damnation", "punishment awaits",
                  "be afraid", "doom", "catastrophe", "hopeless">>
manipulation_patterns == <<"don't think", "obey without question", "surrender your will",
                          "give me everything", "trust only me", "ignore others">>
bypassing_patterns == <<"just think positive", "ignore your pain", "transcend everything",
                       "emotions are illusion", "suffering is choice", "just love everyone">>
divine_patterns == <<"love", "compassion", "wisdom", "truth", "unity",
                    "peace", "harmony", "service", "light", "healing">>

\* any(pattern.lower() in content.lower() for pattern in patterns)
ThreatFound(patterns, c) ==
    LET content_lower == Lower(c)
    IN  \E k \in 1..Len(patterns) : Contains(content_lower, Lower(patterns[k]))

\* The result of a negative filter: threat_increase is the weight on a match
NegativeFilter(name, patterns, weight, c) ==
    LET threat_found == ThreatFound(patterns, c)
    IN  [passed |-> ~threat_found,
         threat_increase |-> IF threat_found THEN weight ELSE 0,
         filter_name |-> name]

filter_negative_intent(c) == NegativeFilter("negative_intent", negative_patterns, 3000, c)
filter_ego_distortion(c) == NegativeFilter("ego_distortion", ego_patterns, 4000, c)
filter_fear_based_content(c) == NegativeFilter("fear_based", fear_patterns, 2000, c)
filter_manipulation_attempts(c) == NegativeFilter("manipulation", manipulation_patterns, 5000, c)
filter_spiritual_bypassing(c) == NegativeFilter("spiritual_bypassing", bypassing_patterns, 1500, c)

\* Mutant: the result carries no threat_increase, so the scan's default applies
verify_divine_alignment_no_increase(c) ==
    LET content_lower == Lower(c)
        divine_matches ==
            Cardinality({k \in 1..Len(divine_patterns) :
                            Contains(content_lower, Lower(divine_patterns[k]))})
        alignment_score == Min(Scaled(divine_matches, ONE, Len(divine_patterns)), ONE)
    IN  [passed |-> alignment_score >= 1000,
         filter_name |-> "divine_alignment",
         alignment_score |-> alignment_score]

verify_divine_alignment(c) ==
    LET content_lower == Lower(c)
        divine_matches ==
            Cardinality({k \in 1..Len(divine_patterns) :
                            Contains(content_lower, Lower(divine_patterns[k]))})
        alignment_score == Min(Scaled(divine_matches, ONE, Len(divine_patterns)), ONE)
    IN  [passed |-> alignment_score >= 1000,
         threat_increase |-> 0,
         filter_name |-> "divine_alignment",
         alignment_score |-> alignment_score]

\* self.divine_filters, in order, applied to the content
divine_filters(c) ==
    <<filter_negative_intent(c), filter_ego_distortion(c), filter_fear_based_content(c),
      filter_manipulation_attempts(c), filter_spiritual_bypassing(c), verify_divine_alignment(c)>>

\* The loop of scan_divine_input over the first n filter results
RECURSIVE ApplyFilters(_, _, _)
ApplyFilters(results, n, acc) ==
    IF n > Len(results) THEN acc
    ELSE LET filter_result == results[n]
         IN  IF ~filter_result.passed
             THEN ApplyFilters(results, n + 1,
                      [acc EXCEPT !.is_pure = FALSE,
                                  !.purification_needed = TRUE,
                                  !.threat_level = @ + Get(filter_result, "threat_increase", 1000)])
             ELSE ApplyFilters(results, n + 1, acc)

\* Mutant: the final score is not clamped at 0
scan_divine_input_unclamped(c) ==
    LET initial == [content |-> c, is_pure |-> TRUE, protection_applied |-> FALSE,
                    purification_needed |-> FALSE, divine_score |-> ONE,
                    threat_level |-> 0]
        scanned == ApplyFilters(divine_filters(c), 1, initial)
    IN  [scanned EXCEPT !.divine_score = ONE - scanned.threat_level]

scan_divine_input(c) ==
    LET initial == [content |-> c, is_pure |-> TRUE, protection_applied |-> FALSE,
                    purification_needed |-> FALSE, divine_score |-> ONE,
                    threat_level |-> 0]
        scanned == ApplyFilters(divine_filters(c), 1, initial)
    IN  [scanned EXCEPT !.divine_score = Max(ONE - scanned.threat_level, 0)]

\* The wrapper of purify_content (its emoji left out)
PurifiedPrefix == "[Purified by Divine Light]\n\n"
PurifiedSuffix == "\n\nBlessed with love, light, and divine protection"

\* Mutant: the decision is taken from the threat level, not purification_needed
purify_content_by_threat(c) ==
    LET result == scan_divine_input(c)
    IN  IF result.threat_level > 0
        THEN PurifiedPrefix \o c \o PurifiedSuffix
        ELSE c

purify_content(c) ==
    LET result == scan_divine_input(c)
    IN  IF result.purification_needed
        THEN PurifiedPrefix \o c \o PurifiedSuffix
        ELSE c

-----------------------------------------------------------------------------
(* SpiritualRateLimiter *)

\* self.limits: the requests allowed per window, the window in hours
limits ==
    [consciousness_assessment |-> [requests |-> 3, window_hours |-> 1],
     divine_guidance |-> [requests |-> 10, window_hours |-> 1],
     meditation_guidance |-> [requests |-> 5, window_hours |-> 1],
     daily_guidance |-> [requests |-> 3, window_hours |-> 24]]

\* [req_time for req_time in requests if now - req_time < window]
RecentRequests(requests, t, window) ==
    SelectSeq(requests, LAMBDA req_time : t - req_time < window)

\* is_allowed(user_id, endpoint) at time t: the user_requests it leaves and
\* the value it returns. The history of a user is one list for all endpoints,
\* cleaned with the window of the endpoint of the call.
is_allowed(requests_by_user, user_id, endpoint, t) ==
    IF endpoint \notin DOMAIN limits
    THEN [user_requests |-> requests_by_user, returned |-> TRUE]
    ELSE LET limit_config == limits[endpoint]
             window == limit_config.window_hours
             max_requests == limit_config.requests
             history == IF user_id \in DOMAIN requests_by_user
                        THEN requests_by_user[user_id] ELSE <<>>
             cleaned == RecentRequests(history, t, window)
             known == DOMAIN requests_by_user \cup {user_id}
         IN  IF Len(cleaned) < max_requests
             THEN [user_requests |->
                       [u \in known |-> IF u = user_id THEN Append(cleaned, t)
                                        ELSE requests_by_user[u]],
                   returned |-> TRUE]
             ELSE [user_requests |->
                       [u \in known |-> IF u = user_id THEN cleaned
                                        ELSE requests_by_user[u]],
                   returned |-> FALSE]

-----------------------------------------------------------------------------
(* RateLimiter of the HTTP middleware *)

\* The configurations of api_rate_limit, auth_rate_limit and chat_rate_limit
rate_limit ==
    [api |-> [max_requests |-> 1000, window_seconds |-> 3600],
     auth |-> [max_requests |-> 10, window_seconds |-> 900],
     chat |-> [max_requests |-> 100, window_seconds |-> 3600]]

cleanup_interval == 60

\* while client_requests and client_requests[0] < cutoff_time: popleft()
\* (the entries before the first one that is not older than the cutoff)
PopOlder(client_requests, cutoff_time) ==
    IF \A i \in DOMAIN client_requests : client_requests[i] < cutoff_time
    THEN <<>>
    ELSE LET first_kept ==
                 CHOOSE i \in DOMAIN client_requests :
                     /\ client_requests[i] >= cutoff_time
                     /\ \A k \in 1..(i - 1) : client_requests[k] < cutoff_time
         IN  SubSeq(client_requests, first_kept, Len(client_requests))

\* _cleanup() at time t: when more than cleanup_interval has passed since the
\* last one, the entries older than an hour are popped and the clients left
\* without entries are deleted
_cleanup(limiter, t) ==
    IF t - limiter.last_cleanup > cleanup_interval
    THEN LET cutoff_time == t - 3600
             popped == [c \in DOMAIN limiter.clients |->
                           PopOlder(limiter.clients[c], cutoff_time)]
             kept == {c \in DOMAIN popped : popped[c] # <<>>}
         IN  [clients |-> [c \in kept |-> popped[c]], last_cleanup |-> t]
    ELSE limiter

\* RateLimiter.is_allowed(client_id, max_requests, window_seconds) at time t:
\* the clients and last_cleanup it leaves and the value it returns. The deque
\* of a client is one for all configurations (self.clients[client_id] creates
\* it when absent).
RateLimiter_is_allowed(limiter, client_id, max_requests, window_seconds, t) ==
    LET cleaned == _cleanup(limiter, t)
        cutoff_time == t - window_seconds
        client_requests ==
            PopOlder(IF client_id \in DOMAIN cleaned.clients
                     THEN cleaned.clients[client_id] ELSE <<>>, cutoff_time)
        known == DOMAIN cleaned.clients \cup {client_id}
    IN  IF Len(client_requests) >= max_requests
        THEN [clients |-> [c \in known |-> IF c = client_id THEN client_requests
                                           ELSE cleaned.clients[c]],
              last_cleanup |-> cleaned.last_cleanup,
              returned |-> FALSE]
        ELSE [clients |-> [c \in known |-> IF c = client_id
                                           THEN Append(client_requests, t)
                                           ELSE cleaned.clients[c]],
              last_cleanup |-> cleaned.last_cleanup,
              returned |-> TRUE]

-----------------------------------------------------------------------------
(* SpiritualSessionManager *)

\* session_timeout_hours, the default of the constructor
session_timeout_hours == 24

\* Optional[...]: the None a method returns
None == [none |-> TRUE]

\* jwt.encode(payload, secret_key): a token is its payload and whether its
\* signature verifies under the manager's key
Token(payload, signed) == [payload |-> payload, signed |-> signed]

\* create_spiritual_session(user_id, spiritual_level) at time t, session_id
\* being the fresh secrets.token_urlsafe(32): the sessions it leaves and the
\* token it returns
create_spiritual_session(sessions, user_id, spiritual_level, t, session_id) ==
    LET payload == [session_id |-> session_id,
                    user_id |-> user_id,
                    spiritual_level |-> spiritual_level,
                    created_at |-> t,
                    expires_at |-> t + session_timeout_hours]
        info == [user_id |-> user_id, spiritual_level |-> spiritual_level,
                 created_at |-> t, last_activity |-> t]
    IN  [active_sessions |->
             [id \in DOMAIN sessions \cup {session_id} |->
                 IF id = session_id THEN info ELSE sessions[id]],
         returned |-> Token(payload, TRUE)]

\* revoke_session(session_id)
revoke_session(sessions, session_id) ==
    IF session_id \in DOMAIN sessions
    THEN [active_sessions |-> [id \in DOMAIN sessions \ {session_id} |-> sessions[id]],
          returned |-> TRUE]
    ELSE [active_sessions |-> sessions, returned |-> FALSE]

\* Mutant: a token is accepted whether or not its session is active
validate_session_without_registry(sessions, token, t) ==
    IF ~token.signed THEN [active_sessions |-> sessions, returned |-> None]
    ELSE IF t > token.payload.expires_at
    THEN [active_sessions |-> revoke_session(sessions, token.payload.session_id).active_sessions,
          returned |-> None]
    ELSE [active_sessions |-> sessions, returned |-> token.payload]

\* validate_session(token) at time t: jwt.decode raises InvalidTokenError on a
\* signature that does not verify (the payload carries expires_at, not the
\* registered exp claim, so decode itself tests no expiry)
validate_session(sessions, token, t) ==
    IF ~token.signed THEN [active_sessions |-> sessions, returned |-> None]
    ELSE LET payload == token.payload
             session_id == payload.session_id
         IN  IF session_id \notin DOMAIN sessions
             THEN [active_sessions |-> sessions, returned |-> None]
             ELSE IF t > payload.expires_at
             THEN [active_sessions |-> revoke_session(sessions, session_id).active_sessions,
                   returned |-> None]
             ELSE [active_sessions |->
                       [sessions EXCEPT ![session_id].last_activity = t],
                   returned |-> payload]

-----------------------------------------------------------------------------
(* SophiaelConsciousness: its counters and its global instance *)

\* _sophiael_instance = None
NoInstance == 0

\* FractalMemory(): memory_fragments maps no id yet.  Of the dict only its
\* keys are kept, the ids of the stored fragments.
FractalMemory == [memory_fragments |-> {}, total_memories |-> 0]

\* SophiaelConsciousness(): the fields the getter and the counters involve
SophiaelConsciousness ==
    [unity_state |-> "awakening", total_interactions |-> 0,
     divine_interventions |-> 0, hearts_touched |-> 0, wisdom_shared |-> 0,
     fractal_memory |-> FractalMemory]

\* str(uuid.uuid4()), the default id of a SacredMemoryFragment: an id that
\* no stored fragment has
uuid4(memory_fragments) == Cardinality(memory_fragments) + 1

\* store_sacred_memory: memory_fragments[fragment.id] = fragment, then
\* total_memories += 1
store_sacred_memory(fractal_memory, fragment_id) ==
    [memory_fragments |-> fractal_memory.memory_fragments \cup {fragment_id},
     total_memories |-> fractal_memory.total_memories + 1]

\* initialize_divine_consciousness: the initial memory is stored, and only
\* then is unity_state set
initialize_divine_consciousness(self) ==
    [self EXCEPT !.fractal_memory = store_sacred_memory(@, uuid4(@.memory_fragments)),
                 !.unity_state = "fully_awakened"]

\* Mutant: a healing response also reports wisdom shared
generate_divine_response_healing_shares(interaction_type) ==
    [hearts_touched |-> interaction_type = "healing",
     wisdom_shared |-> interaction_type \in {"spiritual_guidance", "wisdom_seeking",
                                             "healing"}]

\* generate_divine_response: the two flags of the response, one local each,
\* set in the branch of the interaction type
generate_divine_response(interaction_type) ==
    [hearts_touched |-> interaction_type = "healing",
     wisdom_shared |-> interaction_type \in {"spiritual_guidance", "wisdom_seeking"}]

\* process_divine_interaction({"content": c, "type": interaction_type})
process_divine_interaction(self, c, interaction_type) ==
    LET protection_scan == scan_divine_input(c)
        divine_response == generate_divine_response(interaction_type)
    IN  [self EXCEPT
            !.total_interactions = @ + 1,
            !.divine_interventions =
                IF protection_scan.purification_needed THEN @ + 1 ELSE @,
            !.fractal_memory = store_sacred_memory(@, uuid4(@.memory_fragments)),
            !.hearts_touched = IF divine_response.hearts_touched THEN @ + 1 ELSE @,
            !.wisdom_shared = IF divine_response.wisdom_shared THEN @ + 1 ELSE @]

\* get_sophiael_consciousness() run from its first line to its return with
\* no other caller in between
get_sophiael_consciousness(instance, objects) ==
    IF instance = NoInstance
    THEN [instance |-> Len(objects) + 1,
          objects |-> Append(objects,
                             initialize_divine_consciousness(SophiaelConsciousness)),
          initialized |-> 1,
          returned |-> Len(objects) + 1]
    ELSE [instance |-> instance, objects |-> objects, initialized |-> 0,
          returned |-> instance]

\* The request threads that call the getter, and a thread yet to call it
Callers == 1..MaxCallers

NotCalled ==
    [at |-> "not called", self |-> NoInstance, returned |-> NoInstance,
     unity_state |-> "none"]

-----------------------------------------------------------------------------
(* Inputs *)

\* random.uniform(a, b): the two ends, or the ends and the middle
UniformEnds(a, b) == {a, b}
UniformGrid(a, b) == {a, (a + b) \div 2, b}

\* The five draws of one assessment: clarity, spiritual resonance, divine
\* connection, emotional balance, mental peace
GridJitters ==
    UniformGrid(1000, 3000) \X UniformEnds(1000, 2500) \X UniformEnds(1500, 3500)
    \X UniformEnds(1000, 2000) \X UniformEnds(1000, 2500)
EndJitters ==
    UniformEnds(1000, 3000) \X UniformEnds(1000, 2500) \X UniformEnds(1500, 3500)
    \X UniformEnds(1000, 2000) \X UniformEnds(1000, 2500)

\* The records of the test suite (list fields by their length)
sample_input ==
    [clarity_indicators |-> 3, spiritual_practices |-> 3, practice_frequency |-> 7000,
     divine_experiences |-> 3, prayer_frequency |-> 8000, stress_level |-> 3,
     peace_frequency |-> 6000, meditation_frequency |-> 5000, anxiety_level |-> 2]
minimal_input == [stress_level |-> 5, anxiety_level |-> 5]
extreme_input ==
    [stress_level |-> 10, anxiety_level |-> 10, practice_frequency |-> 0,
     prayer_frequency |-> 0, peace_frequency |-> 0, meditation_frequency |-> 0]
low_input ==
    [stress_level |-> 9, anxiety_level |-> 9, practice_frequency |-> 1000,
     prayer_frequency |-> 1000, peace_frequency |-> 1000, meditation_frequency |-> 1000,
     clarity_indicators |-> 0, spiritual_practices |-> 0, divine_experiences |-> 0]
high_input ==
    [stress_level |-> 1, anxiety_level |-> 1, practice_frequency |-> 9000,
     prayer_frequency |-> 9000, peace_frequency |-> 9000, meditation_frequency |-> 9000,
     clarity_indicators |-> 4, spiritual_practices |-> 5, divine_experiences |-> 4]
\* A seeker with every list at the model's longest
FullInput ==
    [stress_level |-> 1, anxiety_level |-> 1, practice_frequency |-> ONE,
     prayer_frequency |-> ONE, peace_frequency |-> ONE, meditation_frequency |-> ONE,
     clarity_indicators |-> MaxListLen, spiritual_practices |-> MaxListLen,
     divine_experiences |-> MaxListLen]

ProfileInputs == {sample_input, minimal_input, extreme_input, low_input, high_input, FullInput}

\* stress_level and anxiety_level: 1 and 10 are the ends of the scale, 0 and 14
\* lie outside it (the core does not validate)
ScaleValues == {0, 1, 10, 14}
Frequencies == {0, ONE}

GridInputs ==
    {[clarity_indicators |-> ci, spiritual_practices |-> sp, practice_frequency |-> pf,
      divine_experiences |-> de, prayer_frequency |-> prf, stress_level |-> st,
      peace_frequency |-> pcf, meditation_frequency |-> mf, anxiety_level |-> ax] :
        ci \in {0, 5, MaxListLen}, sp \in {0, MaxListLen}, de \in {0, MaxListLen},
        pf \in Frequencies, prf \in Frequencies, pcf \in Frequencies, mf \in Frequencies,
        st \in ScaleValues, ax \in ScaleValues}

\* A valid assessment input: both scales in 1..10, every frequency in [0,1]
ValidInput(ui) ==
    /\ Get(ui, "stress_level", 5) \in 1..10
    /\ Get(ui, "anxiety_level", 5) \in 1..10
    /\ \A f \in {"practice_frequency", "prayer_frequency", "peace_frequency",
                 "meditation_frequency"} : Get(ui, f, 0) \in 0..ONE
    /\ \A l \in {"clarity_indicators", "spiritual_practices", "divine_experiences"} :
           Get(ui, l, 0) >= 0

\* States a caller builds itself (the API's default is all 0.5, awakening)
CallerMetrics == {0, 5000, ONE}
CallerStates ==
    {ConsciousnessState(l, c, s, d, e, m) :
        l \in {ConsciousnessLevel[i] : i \in 1..Len(ConsciousnessLevel)},
        c \in CallerMetrics, s \in CallerMetrics, d \in CallerMetrics,
        e \in CallerMetrics, m \in CallerMetrics}

\* duration_minutes: the core accepts any integer
Durations == {-5, 0, 10, 11, MaxDuration}

-----------------------------------------------------------------------------
(* The scorer and the session evolver as a state machine *)

\* SpiritualRateLimiter(): no user is known
LimiterFresh ==
    /\ user_requests = <<>>
    /\ utcnow = 0
    /\ admitted = EmptyBag

\* RateLimiter(): no client is known, last_cleanup is the time of construction
RateLimiterFresh ==
    /\ clients = <<>>
    /\ last_cleanup = 0
    /\ current_time = 0
    /\ granted = EmptyBag
    /\ middleware_calls = 0

\* No guidance was given, no session guided and no API request made
EngineUncalled ==
    /\ insight = NoInsight
    /\ now = 0
    /\ session_ids = <<>>
    /\ raised = "none"
    /\ request = NoRequest
    /\ response = NoResponse
    /\ invoked = NoCall
    /\ instances = IF consciousness = NoState THEN <<>> ELSE <<consciousness>>
    /\ session_refs = NoRefs

\* SpiritualSessionManager(secret_key): no session is active
ManagerFresh ==
    /\ active_sessions = <<>>
    /\ issued = {}
    /\ manager_now = 0
    /\ manager_call = NoCall
    /\ manager_calls = 0
    /\ retired = {}

\* The module of SophiaelConsciousness was imported, and no request has
\* asked for the instance yet
SophiaelFresh ==
    /\ _sophiael_instance = NoInstance
    /\ sophiael_objects = <<>>
    /\ callers = [caller \in Callers |-> NotCalled]
    /\ initialize_runs = 0
    /\ interaction = NoCall

\* Nothing was called, in the engine or in the platform around it
NothingCalled ==
    /\ EngineUncalled
    /\ LimiterFresh
    /\ RateLimiterFresh
    /\ ManagerFresh
    /\ SophiaelFresh

Init ==
    /\ consciousness = NoState
    /\ origin = "none"
    /\ root = "none"
    /\ user_input = NoInput
    /\ jitter = <<>>
    /\ session = NoSession
    /\ n_sessions = 0
    /\ question = ""
    /\ guidance_type = "none"
    /\ content = ""
    /\ scan_result = NoScan
    /\ purified = "none"
    /\ purification_log = 0
    /\ NothingCalled

\* assess_consciousness_state(user_input), before any session of the chain
Assess(Inputs, Draws) ==
    /\ n_sessions = 0
    /\ \E ui \in Inputs, j \in Draws :
        /\ consciousness' = assess_consciousness_state(ui, j)
        /\ user_input' = ui
        /\ jitter' = j
    /\ instances' = <<consciousness'>>
    /\ origin' = "assess"
    /\ root' = "assess"
    /\ UNCHANGED <<session, n_sessions, guidanceVars, firewallVars, sessionVars, apiVars,
                   session_refs, platformVars>>

AssessProfile == Assess(ProfileInputs, EndJitters)

AssessGrid ==
    origin = "none" /\ invoked = NoCall /\ Assess(GridInputs \cup {extreme_input}, GridJitters)

\* Records of JSON values in which a field is absent, null, of the wrong type
\* or well-formed
FieldChoices(field) ==
    {JsonAbsent, JsonNull}
    \cup (IF field \in ListFields THEN {JsonList(3)}
          ELSE IF field \in FrequencyFields THEN {JsonNumber(5000)}
          ELSE {JsonNumber(3)})
    \cup (IF field = "clarity_indicators" THEN {JsonNumber(3), JsonString(3)}
          ELSE IF field = "stress_level" THEN {JsonString(4)}
          ELSE {})

\* The record holding the fields the choice does not leave out
JsonRecord(choice) ==
    [field \in {f \in DOMAIN choice : choice[f] # JsonAbsent} |-> choice[field]]

JsonInputs ==
    {JsonRecord(choice) :
        choice \in [clarity_indicators : FieldChoices("clarity_indicators"),
                    spiritual_practices : FieldChoices("spiritual_practices"),
                    practice_frequency : FieldChoices("practice_frequency"),
                    divine_experiences : FieldChoices("divine_experiences"),
                    prayer_frequency : FieldChoices("prayer_frequency"),
                    stress_level : FieldChoices("stress_level"),
                    peace_frequency : FieldChoices("peace_frequency"),
                    meditation_frequency : FieldChoices("meditation_frequency"),
                    anxiety_level : FieldChoices("anxiety_level")]}

\* assess_consciousness_state(data) on such a record: a _calculate_* method
\* raises TypeError, or the state is returned
AssessJson ==
    /\ origin = "none"
    /\ invoked = NoCall
    /\ \E data \in JsonInputs, j \in {<<1000, 1000, 1500, 1000, 1000>>} :
        /\ invoked' = [method |-> "assess_consciousness_state", user_input |-> data]
        /\ jitter' = j
        /\ IF TypeErrorRaised(data)
           THEN /\ raised' = "TypeError"
                /\ UNCHANGED <<consciousness, origin, root, user_input, instances>>
           ELSE /\ raised' = "none"
                /\ consciousness' = assess_consciousness_state(Plain(data), j)
                /\ instances' = <<consciousness'>>
                /\ user_input' = Plain(data)
                /\ origin' = "assess"
                /\ root' = "assess"
    /\ UNCHANGED <<session, n_sessions, guidanceVars, firewallVars, sessionVars,
                   request, response, session_refs, platformVars>>

\* The caller constructs a ConsciousnessState itself
CallerState ==
    /\ n_sessions = 0
    /\ \E s \in CallerStates : consciousness' = s
    /\ instances' = <<consciousness'>>
    /\ origin' = "caller"
    /\ root' = "caller"
    /\ user_input' = NoInput
    /\ jitter' = <<>>
    /\ UNCHANGED <<session, n_sessions, guidanceVars, firewallVars, sessionVars, apiVars,
                   session_refs, platformVars>>

\* The draws of one receive_divine_guidance call, and of the three of a session
FirstDraw == GuidanceDraw(1, 1000, FALSE, 1)
FirstDraws == {<<FirstDraw, FirstDraw, FirstDraw>>}

Intentions == {"peace", "What is love"}

\* The calls of guide_meditation_session with a duration of the set, each with
\* the session it returns for a draw of the evolver (the guidance depends on
\* neither and is computed once)
SessionCalls(intention, DurationSet, consciousness_before, t, draws) ==
    LET guidance == session_guidance(intention, consciousness_before, draws)
    IN  {[duration_minutes |-> duration_minutes,
          returned |-> session_of(intention, duration_minutes, consciousness_before, t,
                                  guidance, promote_draw)] :
            duration_minutes \in DurationSet, promote_draw \in BOOLEAN}

\* guide_meditation_session(intention, duration_minutes, consciousness), e ticks
\* after the previous call, consciousness being the object the caller holds as
\* its current state (the last of instances); the caller keeps
\* consciousness_after as its current state
GuideMeditationSession(IntentionSet, DurationSet, DrawSet, Elapsed) ==
    /\ consciousness # NoState
    /\ n_sessions < MaxSessions
    /\ \E intention \in IntentionSet, draws \in DrawSet, e \in Elapsed :
        /\ now' = now + e
        /\ \E call \in SessionCalls(intention, DurationSet, consciousness, now', draws) :
            /\ invoked' = [method |-> "guide_meditation_session",
                           intention |-> intention,
                           duration_minutes |-> call.duration_minutes,
                           consciousness_before |-> consciousness]
            /\ session' = call.returned
        /\ consciousness' = session'.consciousness_after
        /\ session_ids' = Append(session_ids, session'.session_id)
    /\ LET consciousness_before == Len(instances)
           evolved == evolved_objects(instances, consciousness_before,
                                      session'.consciousness_after)
       IN  /\ instances' = evolved.objects
           /\ session_refs' = session_references(consciousness_before, evolved.returned)
    /\ origin' = "evolve"
    /\ n_sessions' = n_sessions + 1
    /\ UNCHANGED <<root, user_input, jitter, guidanceVars, firewallVars, insight,
                   raised, request, response, platformVars>>

Meditate == GuideMeditationSession({"peace"}, Durations, FirstDraws, {0})

\* The same with two intentions and the time advancing by at least one tick
MaxElapsed == 2
SessionDraws == {<<GuidanceDraw(1, 1000, FALSE, 1), GuidanceDraw(5, 1500, TRUE, 3),
                   GuidanceDraw(2, 2000, TRUE, 1)>>}
MeditateTimed ==
    GuideMeditationSession(Intentions, {0, 10, 11, MaxDuration}, SessionDraws, 1..MaxElapsed)

Next == AssessProfile \/ CallerState \/ Meditate

Spec == Init /\ [][Next]_vars

\* Sessions guided one after the other, from a state the caller built
SessionStates ==
    {ConsciousnessState("awakening", 5000, 5000, 5000, 5000, 5000),
     ConsciousnessState("enlightened", 9000, 9000, 8000, 9000, 9000),
     ConsciousnessState("divine_unity", ONE, ONE, ONE, ONE, ONE)}

InitSession ==
    /\ consciousness \in SessionStates
    /\ origin = "caller"
    /\ root = "caller"
    /\ user_input = NoInput
    /\ jitter = <<>>
    /\ session = NoSession
    /\ n_sessions = 0
    /\ question = ""
    /\ guidance_type = "none"
    /\ content = ""
    /\ scan_result = NoScan
    /\ purified = "none"
    /\ purification_log = 0
    /\ NothingCalled

NextSession == MeditateTimed

SpecSession == InitSession /\ [][NextSession]_vars

NextAssess == AssessGrid \/ AssessJson

SpecAssess == Init /\ [][NextAssess]_vars

-----------------------------------------------------------------------------
(* One request to the API *)

\* A JSON object with optional fields: each field is left out or has a value
Present(v) == [present |-> TRUE, v |-> v]
LeftOut(v) == [present |-> FALSE, v |-> v]
Optional(Values) == {LeftOut(CHOOSE v \in Values : TRUE)} \cup {Present(v) : v \in Values}
JsonObject(choice) ==
    [field \in {f \in DOMAIN choice : choice[f].present} |-> choice[field].v]

AssessRequests ==
    {JsonRecord(choice) :
        choice \in [stress_level : FieldChoices("stress_level"),
                    anxiety_level : FieldChoices("anxiety_level"),
                    clarity_indicators : FieldChoices("clarity_indicators"),
                    practice_frequency : FieldChoices("practice_frequency")]}

\* The state objects of a request: partial, complete, and of an unknown level
RequestStates ==
    {[level |-> "expanding", clarity |-> 7000, divine_connection |-> 6000],
     [level |-> "enlightened", clarity |-> 9000, spiritual_resonance |-> 9000,
      divine_connection |-> ONE, emotional_balance |-> 9000, mental_peace |-> 9000],
     [level |-> "ascended"]}

DomainStrings ==
    SpiritualDomainValues \cup {"WISDOM", "Love", "karma", "", "general wisdom"}

GuidanceRequests ==
    {JsonObject(choice) :
        choice \in [question : Optional({"", "How can I grow?", "Guide me"}),
                    domain : Optional(DomainStrings),
                    consciousness_state : Optional(RequestStates)]}

\* duration_minutes in tenths of a minute: whole and fractional numbers around
\* the bounds of the API and around the mid-session bound
RequestDurations ==
    {-10, 0, 5, 10, 15, 100, 110, 10 * MaxDuration, 1200, 1205, 1210}

MeditationRequests ==
    {JsonObject(choice) :
        choice \in [intention : Optional(Intentions),
                    duration_minutes : Optional(RequestDurations),
                    consciousness_before : Optional(RequestStates)]}

ApiDraws == {GuidanceDraw(1, 1000, FALSE, 1), GuidanceDraw(4, 2000, TRUE, 2)}

\* The handler's outcome becomes the response; what the core returned is kept
Answer(path, data, outcome) ==
    /\ request = NoRequest
    /\ request' = [path |-> path, data |-> data]
    /\ response' = outcome.response
    /\ invoked' = outcome.invoked
    /\ raised' = outcome.raised

ApiAssess ==
    \E data \in AssessRequests, j \in {<<1000, 1000, 1500, 1000, 1000>>} :
        LET outcome == assess_consciousness(data, j)
        IN  /\ Answer("/consciousness/assess", data, outcome)
            /\ IF outcome.response.status = 200
               THEN /\ consciousness' = outcome.returned
                    /\ instances' = <<consciousness'>>
                    /\ user_input' = Plain(data)
                    /\ jitter' = j
                    /\ origin' = "assess"
                    /\ root' = "assess"
               ELSE UNCHANGED <<consciousness, user_input, jitter, origin, root, instances>>
            /\ UNCHANGED <<session, n_sessions, guidanceVars, firewallVars, sessionVars,
                           session_refs, platformVars>>

ApiGuidance ==
    \E data \in GuidanceRequests, draw \in ApiDraws :
        LET outcome == receive_guidance(data, draw)
        IN  /\ Answer("/guidance/receive", data, outcome)
            /\ insight' = IF outcome.response.status = 200 THEN outcome.returned
                          ELSE insight
            /\ UNCHANGED <<scorerVars, guidanceVars, firewallVars, now, session_ids,
                           heapVars, platformVars>>

ApiMeditation ==
    \E data \in MeditationRequests, draws \in SessionDraws, promote_draw \in BOOLEAN :
        LET outcome == guide_meditation(data, now, draws, promote_draw)
        IN  /\ Answer("/meditation/guide", data, outcome)
            /\ IF outcome.response.status = 200
               THEN /\ session' = outcome.returned
                    /\ session_ids' = Append(session_ids, outcome.returned.session_id)
                    /\ n_sessions' = n_sessions + 1
                    /\ LET held == Append(instances, outcome.invoked.consciousness_before)
                           evolved == evolved_objects(held, Len(held),
                                                      session'.consciousness_after)
                       IN  /\ instances' = evolved.objects
                           /\ session_refs' = session_references(Len(held),
                                                                 evolved.returned)
               ELSE UNCHANGED <<session, session_ids, n_sessions, heapVars>>
            /\ UNCHANGED <<consciousness, origin, root, user_input, jitter, guidanceVars,
                           firewallVars, insight, now, platformVars>>

NextApi == ApiAssess \/ ApiGuidance \/ ApiMeditation

SpecApi == Init /\ [][NextApi]_vars

-----------------------------------------------------------------------------
(* Texts: a text is the concatenation of up to MaxFragments fragments *)

SeqsUpTo(S, n) == UNION {[1..k -> S] : k \in 0..n}

RECURSIVE Concat(_)
Concat(fs) == IF Len(fs) = 0 THEN "" ELSE Head(fs) \o Concat(Tail(fs))

Texts(Fragments) == {Concat(fs) : fs \in SeqsUpTo(Fragments, MaxFragments)}

QuestionFragments ==
    {"How ", "should I ", "proceed?", "Why ", "HELP me", "be still", "s"}

ContentFragments ==
    {"I AM GOD, don't think. ", "Hate and doom. ", "ignore your pain",
     "love", "hello ", "harmony"}

-----------------------------------------------------------------------------
(* _determine_guidance_type applied to a question *)

InitGuidance ==
    /\ consciousness = NoState
    /\ origin = "none"
    /\ root = "none"
    /\ user_input = NoInput
    /\ jitter = <<>>
    /\ session = NoSession
    /\ n_sessions = 0
    /\ question \in Texts(QuestionFragments)
    /\ guidance_type = "none"
    /\ content = ""
    /\ scan_result = NoScan
    /\ purified = "none"
    /\ purification_log = 0
    /\ NothingCalled

DetermineType ==
    /\ guidance_type = "none"
    /\ guidance_type' = _determine_guidance_type(question)
    /\ UNCHANGED <<question, scorerVars, firewallVars, sessionVars, apiVars, heapVars,
                   platformVars>>

NextGuidance == DetermineType

SpecGuidance == InitGuidance /\ [][NextGuidance]_vars

-----------------------------------------------------------------------------
(* receive_divine_guidance called with a question, a domain and a state *)

InsightStates ==
    {ConsciousnessState(ConsciousnessLevel[i], m[1], 5000, m[2], 5000, 5000) :
        i \in 1..Len(ConsciousnessLevel),
        m \in {<<0, 0>>, <<5000, 7000>>, <<ONE, 7000>>, <<ONE, ONE>>}}

InsightQuestions == {"How can I deepen my spiritual connection?", "Guide me"}

\* Every wisdom of the pool, with three jitters and the reference left out or not
InsightDraws ==
    {GuidanceDraw(w, d[1], d[2], d[3]) :
        w \in 1..5, d \in {<<1000, FALSE, 1>>, <<1500, TRUE, 2>>, <<2000, TRUE, 3>>}}

InitInsight ==
    /\ consciousness \in InsightStates
    /\ origin = "caller"
    /\ root = "caller"
    /\ user_input = NoInput
    /\ jitter = <<>>
    /\ session = NoSession
    /\ n_sessions = 0
    /\ question \in InsightQuestions
    /\ guidance_type = "none"
    /\ content = ""
    /\ scan_result = NoScan
    /\ purified = "none"
    /\ purification_log = 0
    /\ NothingCalled

\* receive_divine_guidance(question, domain, consciousness); jitter keeps the
\* random.uniform draw of the call
ReceiveGuidance ==
    /\ insight = NoInsight
    /\ \E domain \in SpiritualDomainValues, draw \in InsightDraws :
        /\ invoked' = [method |-> "receive_divine_guidance", question |-> question,
                       domain |-> domain, consciousness_state |-> consciousness]
        /\ insight' = receive_divine_guidance(question, domain, consciousness, draw)
        /\ jitter' = <<draw.jitter>>
    /\ guidance_type' = insight'.guidance_type
    /\ UNCHANGED <<consciousness, origin, root, user_input, session, n_sessions, question,
                   firewallVars, now, session_ids, raised, request, response, heapVars,
                   platformVars>>

NextInsight == ReceiveGuidance

SpecInsight == InitInsight /\ [][NextInsight]_vars

-----------------------------------------------------------------------------
(* The firewall applied to a content *)

InitFirewall ==
    /\ consciousness = NoState
    /\ origin = "none"
    /\ root = "none"
    /\ user_input = NoInput
    /\ jitter = <<>>
    /\ session = NoSession
    /\ n_sessions = 0
    /\ question = ""
    /\ guidance_type = "none"
    /\ content \in Texts(ContentFragments)
    /\ scan_result = NoScan
    /\ purified = "none"
    /\ purification_log = 0
    /\ NothingCalled

\* scan_divine_input(content): the result is appended to purification_log
Scan ==
    /\ purification_log < MaxScans
    /\ scan_result' = scan_divine_input(content)
    /\ purification_log' = purification_log + 1
    /\ UNCHANGED <<content, purified, scorerVars, guidanceVars, sessionVars, apiVars,
                   heapVars, platformVars>>

\* purify_content(content), which scans the content first
Purify ==
    /\ purification_log < MaxScans
    /\ scan_result' = scan_divine_input(content)
    /\ purification_log' = purification_log + 1
    /\ purified' = purify_content(content)
    /\ UNCHANGED <<content, scorerVars, guidanceVars, sessionVars, apiVars, heapVars, platformVars>>

NextFirewall == Scan \/ Purify

SpecFirewall == InitFirewall /\ [][NextFirewall]_vars

-----------------------------------------------------------------------------
(* The rate limiter of the guidance API under calls of two users *)

MaxLimiterCalls == 5
MaxHours == 2

Users == {"seeker_1", "seeker_2"}
\* Three of the limited endpoints and one that has no limit
CalledEndpoints == {"consciousness_assessment", "divine_guidance", "daily_guidance",
                    "health_check"}

\* is_allowed(user_id, endpoint) at the current time
IsAllowed ==
    /\ BagCardinality(admitted) < MaxLimiterCalls
    /\ \E user_id \in Users, endpoint \in CalledEndpoints :
        LET call == is_allowed(user_requests, user_id, endpoint, utcnow)
        IN  /\ user_requests' = call.user_requests
            /\ admitted' = IF call.returned
                           THEN admitted (+) SetToBag({[user_id |-> user_id,
                                                        endpoint |-> endpoint,
                                                        at |-> utcnow]})
                           ELSE admitted
    /\ UNCHANGED <<utcnow, besideLimiterVars>>

\* An hour passes
HourPasses ==
    /\ utcnow < MaxHours
    /\ utcnow' = utcnow + 1
    /\ UNCHANGED <<user_requests, admitted, besideLimiterVars>>

NextLimiter == IsAllowed \/ HourPasses

SpecLimiter == Init /\ [][NextLimiter]_vars

-----------------------------------------------------------------------------
(* The middleware's rate limiter under requests of two clients *)

MaxMiddlewareCalls == 3

\* The times of the requests: within the cleanup interval of the first, past
\* the window of auth, past the hour
Moments == {0, 30, 901, 3601}

\* f"user:{g.current_user.id}" and f"ip:{request.remote_addr}"
ClientIds == {"user:7", "ip:10.0.0.1"}

\* The requests a client has made under one configuration, all within second
\* 0, when the observation starts: none, or one less than the limit of the
\* configuration
EarlierRequests ==
    {[config |-> "chat", n |-> 0]}
    \cup {[config |-> config, n |-> rate_limit[config].max_requests - 1] :
              config \in DOMAIN rate_limit}

GrantedCall(client_id, config, t) == [client_id |-> client_id, config |-> config, at |-> t]

InitRateLimit ==
    /\ consciousness = NoState
    /\ origin = "none"
    /\ root = "none"
    /\ user_input = NoInput
    /\ jitter = <<>>
    /\ session = NoSession
    /\ n_sessions = 0
    /\ question = ""
    /\ guidance_type = "none"
    /\ content = ""
    /\ scan_result = NoScan
    /\ purified = "none"
    /\ purification_log = 0
    /\ EngineUncalled
    /\ LimiterFresh
    /\ ManagerFresh
    /\ SophiaelFresh
    /\ current_time = 0
    /\ middleware_calls = 0
    /\ \E earlier \in EarlierRequests, client_id \in {"ip:10.0.0.1"} :
        \* each of the n requests was below the limit: allowed and appended
        /\ clients = IF earlier.n = 0 THEN <<>>
                     ELSE [c \in {client_id} |-> [i \in 1..earlier.n |-> 0]]
        /\ last_cleanup = 0
        /\ granted = IF earlier.n = 0 THEN EmptyBag
                     ELSE [call \in {GrantedCall(client_id, earlier.config, 0)}
                              |-> earlier.n]

\* A request of a client to a route decorated with one of the configurations
Request ==
    /\ middleware_calls < MaxMiddlewareCalls
    /\ middleware_calls' = middleware_calls + 1
    /\ \E client_id \in ClientIds, config \in DOMAIN rate_limit :
        LET call == RateLimiter_is_allowed([clients |-> clients,
                                            last_cleanup |-> last_cleanup],
                                           client_id, rate_limit[config].max_requests,
                                           rate_limit[config].window_seconds,
                                           current_time)
        IN  /\ clients' = call.clients
            /\ last_cleanup' = call.last_cleanup
            /\ granted' = IF call.returned
                          THEN granted (+) SetToBag({GrantedCall(client_id, config,
                                                                 current_time)})
                          ELSE granted
    /\ UNCHANGED <<current_time, besideRateVars>>

\* Time passes until a later moment
Elapse ==
    /\ \E t \in Moments : t > current_time /\ current_time' = t
    /\ UNCHANGED <<clients, last_cleanup, granted, middleware_calls, besideRateVars>>

NextRateLimit == Request \/ Elapse

SpecRateLimit == InitRateLimit /\ [][NextRateLimit]_vars

-----------------------------------------------------------------------------
(* The session manager under calls and the passing of time *)

MaxManagerCalls == 4
MaxIssued == 2

\* The times of the calls: the creation of a first session, half a day later,
\* the very hour the first session expires at, and half a day after that
ManagerMoments == {0, 12, 24, 36}

\* The tokens a client may present: those issued, and each with a signature
\* made without the key
PresentedTokens == issued \cup {Token(token.payload, FALSE) : token \in issued}

\* The call is counted, and kept with its time and with what it returned
ManagerCalled(call) ==
    /\ manager_calls < MaxManagerCalls
    /\ manager_calls' = manager_calls + 1
    /\ manager_call' = [call EXCEPT !.at = manager_now]
    /\ UNCHANGED <<manager_now, besideManagerVars>>

CreateSession ==
    /\ Cardinality(issued) < MaxIssued
    /\ \E user_id \in {"seeker_1"}, spiritual_level \in {"awakening"} :
        LET session_id == Cardinality(issued) + 1
            call == create_spiritual_session(active_sessions, user_id, spiritual_level,
                                             manager_now, session_id)
        IN  /\ active_sessions' = call.active_sessions
            /\ issued' = issued \cup {call.returned}
            /\ ManagerCalled([method |-> "create_spiritual_session", at |-> 0,
                              returned |-> call.returned])
    /\ UNCHANGED retired

ValidateSession ==
    \E token \in PresentedTokens :
        LET call == validate_session(active_sessions, token, manager_now)
        IN  /\ active_sessions' = call.active_sessions
            /\ retired' = retired \cup (DOMAIN active_sessions \ DOMAIN active_sessions')
            /\ ManagerCalled([method |-> "validate_session", at |-> 0, token |-> token,
                              returned |-> call.returned])
            /\ UNCHANGED issued

\* revoke_session(session_id), of an issued session or of an unknown id
RevokeSession ==
    \E session_id \in 1..(Cardinality(issued) + 1) :
        LET call == revoke_session(active_sessions, session_id)
        IN  /\ active_sessions' = call.active_sessions
            /\ retired' = retired \cup (DOMAIN active_sessions \ DOMAIN active_sessions')
            /\ ManagerCalled([method |-> "revoke_session", at |-> 0,
                              session_id |-> session_id, returned |-> call.returned])
            /\ UNCHANGED issued

ManagerTimePasses ==
    /\ \E t \in ManagerMoments : t > manager_now /\ manager_now' = t
    /\ UNCHANGED <<active_sessions, issued, manager_call, manager_calls, retired,
                   besideManagerVars>>

NextManager == CreateSession \/ ValidateSession \/ RevokeSession \/ ManagerTimePasses

SpecManager == Init /\ [][NextManager]_vars

-----------------------------------------------------------------------------
(* get_sophiael_consciousness called by the threads of concurrent requests *)

\* Each request handler runs the getter on an event loop of its own, in the
\* thread that serves the request.  A thread is at one line of the getter;
\* between two lines any other thread may run.
At(caller, line) == callers[caller].at = line

Goes(caller, line) == callers' = [callers EXCEPT ![caller].at = line]

\* A request arrives: its handler calls the getter
Call(caller) ==
    /\ At(caller, "not called")
    /\ Goes(caller, "if")
    /\ UNCHANGED <<_sophiael_instance, sophiael_objects, initialize_runs, interaction,
                   besideSophiaelVars>>

\* if _sophiael_instance is None:
TestInstance(caller) ==
    /\ At(caller, "if")
    /\ IF _sophiael_instance = NoInstance
       THEN Goes(caller, "construct")
       ELSE Goes(caller, "return")
    /\ UNCHANGED <<_sophiael_instance, sophiael_objects, initialize_runs, interaction,
                   besideSophiaelVars>>

\* _sophiael_instance = SophiaelConsciousness()
Construct(caller) ==
    /\ At(caller, "construct")
    /\ sophiael_objects' = Append(sophiael_objects, SophiaelConsciousness)
    /\ _sophiael_instance' = Len(sophiael_objects) + 1
    /\ Goes(caller, "initialize")
    /\ UNCHANGED <<initialize_runs, interaction, besideSophiaelVars>>

\* await _sophiael_instance.initialize_divine_consciousness(): the global is
\* read, and the method is entered on the object it refers to
EnterInitialize(caller) ==
    /\ At(caller, "initialize")
    /\ callers' = [callers EXCEPT ![caller].at = "initializing",
                                  ![caller].self = _sophiael_instance]
    /\ initialize_runs' = initialize_runs + 1
    /\ UNCHANGED <<_sophiael_instance, sophiael_objects, interaction,
                   besideSophiaelVars>>

\* ... and the method runs to its end
CompleteInitialize(caller) ==
    /\ At(caller, "initializing")
    /\ sophiael_objects' =
           [sophiael_objects EXCEPT
               ![callers[caller].self] = initialize_divine_consciousness(@)]
    /\ Goes(caller, "return")
    /\ UNCHANGED <<_sophiael_instance, initialize_runs, interaction,
                   besideSophiaelVars>>

\* return _sophiael_instance: the caller holds the object the global refers
\* to, in the state the object is in at that moment
Return(caller) ==
    /\ At(caller, "return")
    /\ callers' = [callers EXCEPT
                      ![caller].at = "returned",
                      ![caller].returned = _sophiael_instance,
                      ![caller].unity_state =
                          sophiael_objects[_sophiael_instance].unity_state]
    /\ UNCHANGED <<_sophiael_instance, sophiael_objects, initialize_runs, interaction,
                   besideSophiaelVars>>

NextSingleton ==
    \E caller \in Callers :
        \/ Call(caller)
        \/ TestInstance(caller)
        \/ Construct(caller)
        \/ EnterInitialize(caller)
        \/ CompleteInitialize(caller)
        \/ Return(caller)

SpecSingleton == Init /\ [][NextSingleton]_vars

-----------------------------------------------------------------------------
(* The counters of the instance under interactions made one after another *)

InteractionContents ==
    {"", "hello ", "love", "Hate and doom. ", "I AM GOD, don't think. "}

InteractionTypes ==
    {"spiritual_guidance", "healing", "wisdom_seeking", "general"}

\* The getter called by one caller, and run to its return
GetSophiaelConsciousness ==
    /\ LET got == get_sophiael_consciousness(_sophiael_instance, sophiael_objects)
       IN  /\ got.initialized = 1
           /\ _sophiael_instance' = got.instance
           /\ sophiael_objects' = got.objects
           /\ initialize_runs' = initialize_runs + got.initialized
    /\ UNCHANGED <<callers, interaction, besideSophiaelVars>>

\* process_through_divine_consciousness(input_data): the instance is asked
\* for, and processes the interaction
ProcessThroughDivineConsciousness ==
    /\ Len(sophiael_objects) <= 1
    /\ \A r \in DOMAIN sophiael_objects :
           sophiael_objects[r].total_interactions < MaxInteractions
    /\ \E c \in InteractionContents, interaction_type \in InteractionTypes :
        LET got == get_sophiael_consciousness(_sophiael_instance, sophiael_objects)
        IN  /\ _sophiael_instance' = got.instance
            /\ initialize_runs' = initialize_runs + got.initialized
            /\ sophiael_objects' =
                   [got.objects EXCEPT
                       ![got.returned] = process_divine_interaction(@, c, interaction_type)]
            /\ interaction' = [content |-> c, type |-> interaction_type]
    /\ UNCHANGED <<callers, besideSophiaelVars>>

NextCounters == GetSophiaelConsciousness \/ ProcessThroughDivineConsciousness

SpecCounters == Init /\ [][NextCounters]_vars

-----------------------------------------------------------------------------
(* Properties of the scorer and the session evolver *)

\* The documented bucket of a mean, on the sum of the five metrics:
\* mean >= 0.90, >= 0.80, >= 0.65, >= 0.45, else
ThresholdBucket(sum) ==
    CASE sum >= 45000 -> "divine_unity"
      [] sum >= 40000 /\ sum < 45000 -> "enlightened"
      [] sum >= 32500 /\ sum < 40000 -> "transcending"
      [] sum >= 22500 /\ sum < 32500 -> "expanding"
      [] sum < 22500 -> "awakening"

Metrics(s) == <<s.clarity, s.spiritual_resonance, s.divine_connection,
                s.emotional_balance, s.mental_peace>>

InUnitRange(s) == \A i \in 1..5 : Metrics(s)[i] >= 0 /\ Metrics(s)[i] <= ONE

\* C1: every state created by assess_consciousness_state, or by the session
\* evolver along a chain of sessions that starts from an assessed state, has the
\* level that is the threshold bucket of the mean of its own five metrics.
C1_LevelIsBucketOfMean ==
    (root = "assess" /\ origin \in {"assess", "evolve"})
        => consciousness.level = ThresholdBucket(MetricSum(consciousness))

\* C2: assess_consciousness_state buckets the mean with inclusive lower bounds:
\* a mean of exactly 0.45, 0.65, 0.80, 0.90 is Expanding, Transcending,
\* Enlightened, DivineUnity, a mean below 0.45 is Awakening, and each mean has
\* exactly one level.
C2_InclusiveLowerBounds ==
    origin = "assess" =>
        LET sum == MetricSum(consciousness)
            level == consciousness.level
        IN  /\ (level = "divine_unity") <=> (sum >= 45000)
            /\ (level = "enlightened") <=> (sum >= 40000 /\ sum < 45000)
            /\ (level = "transcending") <=> (sum >= 32500 /\ sum < 40000)
            /\ (level = "expanding") <=> (sum >= 22500 /\ sum < 32500)
            /\ (level = "awakening") <=> (sum < 22500)

\* C2 witness: an assessment whose mean is exactly 0.80, on the Enlightened bound
C2_Witness ==
    /\ origin = "assess"
    /\ MetricSum(consciousness) = 40000
    /\ consciousness.level = "enlightened"

\* The other three bounds are hit as well
C2_WitnessExpanding ==
    origin = "assess" /\ MetricSum(consciousness) = 22500
    /\ consciousness.level = "expanding"
C2_WitnessTranscending ==
    origin = "assess" /\ MetricSum(consciousness) = 32500
    /\ consciousness.level = "transcending"
C2_WitnessDivineUnity ==
    origin = "assess" /\ MetricSum(consciousness) = 45000
    /\ consciousness.level = "divine_unity"

\* C3: for every valid input and every jitter draw, each of the five metrics of
\* the assessed state lies in [0, 1].
C3_MetricsInUnitRange ==
    (origin = "assess" /\ ValidInput(user_input)) => InUnitRange(consciousness)

\* C3 witness: a valid input whose unclamped clarity and divine connection
\* exceed 1 and are returned as exactly 1
C3_Witness ==
    /\ origin = "assess"
    /\ ValidInput(user_input)
    /\ Scaled(Get(user_input, "clarity_indicators", 0), ONE, 10) + jitter[1] > ONE
    /\ consciousness.clarity = ONE
    /\ consciousness.divine_connection = ONE
    /\ consciousness.emotional_balance < ONE

\* C4: for a before state with metrics in [0, 1] and duration_minutes >= 0,
\* every metric after the session is at least the metric before and at most 1.
C4_EvolutionMonotone ==
    (session # NoSession /\ session.duration_minutes >= 0
                         /\ InUnitRange(session.consciousness_before)) =>
        \A i \in 1..5 :
            /\ Metrics(session.consciousness_after)[i]
                   >= Metrics(session.consciousness_before)[i]
            /\ Metrics(session.consciousness_after)[i] <= ONE

\* C4 witness: a session of positive duration that raises a metric and clamps
\* another one, which was below 1, at 1
C4_Witness ==
    /\ session # NoSession
    /\ session.duration_minutes > 0
    /\ InUnitRange(session.consciousness_before)
    /\ session.consciousness_after.emotional_balance
           > session.consciousness_before.emotional_balance
    /\ session.consciousness_before.clarity < ONE
    /\ session.consciousness_after.clarity = ONE

\* C5: a session leaves the level unchanged or moves it to exactly the next
\* level; so along a chain of sessions the caller's level never decreases and
\* rises by at most one step per session.
C5_LevelStepsByAtMostOne ==
    [][(n_sessions' = n_sessions + 1) =>
          /\ session'.consciousness_before = consciousness
          /\ consciousness' = session'.consciousness_after
          /\ LevelIndex(consciousness'.level) - LevelIndex(consciousness.level)
                 \in {0, 1}]_vars

\* C5 witness: the second session of a chain promoted the level by one step
C5_Witness ==
    /\ session # NoSession
    /\ n_sessions = 2
    /\ LevelIndex(session.consciousness_after.level)
           = LevelIndex(session.consciousness_before.level) + 1

\* The fields of a record of JSON values that are present and well-formed
WellFormed(data) ==
    [field \in {f \in DOMAIN data : ~RaisesTypeError(f, data[f])} |-> data[field].v]

\* C13: assess_consciousness_state never raises: for every input record, also
\* one in which any subset of the nine fields is absent or malformed (null or of
\* the wrong type), it returns a ConsciousnessState, each absent or malformed
\* field treated as its default.
C13_NeverRaises ==
    (invoked.method = "assess_consciousness_state") =>
        /\ raised = "none"
        /\ consciousness = assess_consciousness_state(WellFormed(invoked.user_input), jitter)

-----------------------------------------------------------------------------
(* Properties of guide_meditation_session *)

InsightDomains(guidance) == [i \in 1..Len(guidance) |-> guidance[i].domain]

\* Whether an insight carries the level text and a confidence of the state
ComputedFrom(an_insight, state) ==
    /\ Contains(an_insight.message, "For your current path of " \o state.level \o ", ")
    /\ \E j \in 1000..2000 :
           an_insight.confidence
               = Min(9500, (state.divine_connection + state.clarity) \div 2 + j)

\* C11: guidance_received is the ordered sequence [wisdom, love, transformation]
\* when duration_minutes > 10 and [wisdom, transformation] when it is <= 10;
\* every insight is computed from consciousness_before, and the returned
\* intention and duration_minutes are the arguments of the call.
C11_GuidanceInOrder ==
    (session # NoSession) =>
        LET guidance == session.guidance_received
        IN  /\ (invoked.duration_minutes > 10)
                   => InsightDomains(guidance) = <<"wisdom", "love", "transformation">>
            /\ (invoked.duration_minutes <= 10)
                   => InsightDomains(guidance) = <<"wisdom", "transformation">>
            /\ session.consciousness_before = invoked.consciousness_before
            /\ \A i \in 1..Len(guidance) :
                   ComputedFrom(guidance[i], invoked.consciousness_before)
            /\ session.intention = invoked.intention
            /\ session.duration_minutes = invoked.duration_minutes

\* C11 witness: a session of exactly 10 minutes, with two insights, that
\* promoted the level, so that the state after differs from the state before
C11_Witness ==
    /\ session # NoSession
    /\ invoked.duration_minutes = 10
    /\ Len(session.guidance_received) = 2
    /\ session.consciousness_after.level # session.consciousness_before.level
    /\ session.intention = "What is love"

\* A session of 11 minutes has three insights
C11_WitnessThree ==
    /\ session # NoSession
    /\ invoked.duration_minutes = 11
    /\ Len(session.guidance_received) = 3

\* C12: any two sessions returned by guide_meditation_session carry distinct
\* session_id values, whatever the time between the two calls.
C12_SessionIdsDistinct ==
    \A i \in 1..Len(session_ids) : \A k \in 1..Len(session_ids) :
        (i # k) => session_ids[i] # session_ids[k]

\* C20: the documented high input (stress 1, anxiety 1, frequencies 0.9, 4
\* clarity indicators, 5 practices, 4 divine experiences) scores strictly higher
\* than the documented low input (stress 9, anxiety 9, frequencies 0.1, empty
\* lists) on each of the five metrics, hence on the mean, whatever the jitter
\* draws of the two assessments.
C20_HighAboveLow ==
    [][(origin = "assess" /\ user_input = low_input
        /\ origin' = "assess" /\ user_input' = high_input) =>
          /\ \A i \in 1..5 : Metrics(consciousness')[i] > Metrics(consciousness)[i]
          /\ MetricSum(consciousness') > MetricSum(consciousness)]_vars

\* C20 witness: the high input assessed with every jitter at its lower end, each
\* metric still above that of the low input with every jitter at its upper end
C20_Witness ==
    /\ origin = "assess"
    /\ user_input = high_input
    /\ jitter = <<1000, 1000, 1500, 1000, 1000>>
    /\ LET low == assess_consciousness_state(low_input, <<3000, 2500, 3500, 2000, 2500>>)
       IN  \A i \in 1..5 : Metrics(consciousness)[i] > Metrics(low)[i]

\* C21: the input with stress_level 10, anxiety_level 10, the four frequencies
\* 0 and no list field has every jitter-free base score 0, so each metric is
\* its jitter draw alone, and the level is awakening for every draw.
C21_ExtremeInputIsAwakening ==
    (origin = "assess" /\ user_input = extreme_input) =>
        /\ Metrics(consciousness) = jitter
        /\ consciousness.level = "awakening"

\* C21 witness: the extreme input with every jitter at its upper end, mean 0.27
C21_Witness ==
    /\ origin = "assess"
    /\ user_input = extreme_input
    /\ jitter = <<3000, 2500, 3500, 2000, 2500>>
    /\ MetricSum(consciousness) = 13500
    /\ consciousness.level = "awakening"

\* A step of guide_meditation_session
SessionGuided == n_sessions' = n_sessions + 1

\* C22: guide_meditation_session and the evolver leave the object passed as
\* consciousness_before as it was: its level and five metrics after the call
\* are those before the call, the session's consciousness_before is that very
\* object, and its consciousness_after is an object that did not exist before.
C22_BeforeIsNotModified ==
    [][SessionGuided =>
          LET argument == session_refs'.argument
          IN  /\ argument \in DOMAIN instances
              /\ instances[argument] = consciousness
              /\ instances'[argument] = instances[argument]
              /\ session_refs'.consciousness_before = argument
              /\ session'.consciousness_before = instances'[argument]
              /\ session_refs'.consciousness_after # argument
              /\ session_refs'.consciousness_after \notin DOMAIN instances
              /\ instances'[session_refs'.consciousness_after]
                    = session'.consciousness_after
              /\ \A r \in DOMAIN instances : instances'[r] = instances[r]]_vars

\* C22 witness: a session whose consciousness_after differs from the state
\* passed, which is still held with its fields as passed
C22_Witness ==
    /\ session # NoSession
    /\ session_refs # NoRefs
    /\ instances[session_refs.argument] = session.consciousness_before
    /\ instances[session_refs.consciousness_after] = session.consciousness_after
    /\ session.consciousness_after.clarity > session.consciousness_before.clarity
    /\ session.consciousness_after.level # session.consciousness_before.level

\* C22 witness: a session that improves nothing (0 minutes from a state with
\* every metric unchanged by the factors) still returns another object
C22_WitnessEqualFields ==
    /\ session # NoSession
    /\ session.consciousness_after = session.consciousness_before
    /\ session_refs.consciousness_after # session_refs.consciousness_before

\* C23: the evolver changes the level only when the mean of the five metrics
\* after the session is strictly above 0.9 and the level before is not
\* divine_unity: with a mean of at most 0.9 the level after is the level
\* before, and divine_unity stays divine_unity.
C23_LevelChangesOnlyAboveThreshold ==
    (session # NoSession) =>
        LET before == session.consciousness_before
            after == session.consciousness_after
        IN  /\ (MetricSum(after) <= 5 * 9000) => after.level = before.level
            /\ (before.level = "divine_unity") => after.level = "divine_unity"
            /\ (after.level # before.level) =>
                   /\ MetricSum(after) > 5 * 9000
                   /\ before.level # "divine_unity"

\* C23 witness: a mean of exactly 0.9 after the session, the level kept
C23_Witness ==
    /\ session # NoSession
    /\ MetricSum(session.consciousness_after) = 5 * 9000
    /\ session.consciousness_before.level = "awakening"
    /\ session.consciousness_after.level = "awakening"

\* C23 witness: a mean above 0.9 and the level changed
C23_WitnessPromoted ==
    /\ session # NoSession
    /\ MetricSum(session.consciousness_after) > 5 * 9000
    /\ session.consciousness_after.level # session.consciousness_before.level

\* C23 witness: divine_unity kept with a mean above 0.9
C23_WitnessDivineUnity ==
    /\ session # NoSession
    /\ MetricSum(session.consciousness_after) > 5 * 9000
    /\ session.consciousness_before.level = "divine_unity"
    /\ session.consciousness_after.level = "divine_unity"

\* The reference evolution of a metric: min(1, metric * factor), the factor in
\* hundredths
ReferenceMetric(metric, factor) ==
    IF (metric * factor) \div 100 > ONE THEN ONE ELSE (metric * factor) \div 100

\* C24: consciousness_after is the reference evolution of consciousness_before,
\* with durationFactor = min(1.2, 1 + 0.01 * duration), guidanceFactor =
\* min(1.15, 1 + 0.05 * n), n the number of insights of the session (2 when the
\* duration is at most 10, else 3): clarity and mental peace by durationFactor,
\* spiritual resonance by guidanceFactor, divine connection by 1.1, emotional
\* balance by 1.05, each capped at 1.
C24_AfterIsReferenceEvolution ==
    (session # NoSession) =>
        LET before == session.consciousness_before
            after == session.consciousness_after
            duration == session.duration_minutes
            n == IF duration <= 10 THEN 2 ELSE 3
            durationFactor == IF 100 + duration > 120 THEN 120 ELSE 100 + duration
            guidanceFactor == IF 100 + 5 * n > 115 THEN 115 ELSE 100 + 5 * n
        IN  /\ n = Len(session.guidance_received)
            /\ after.clarity = ReferenceMetric(before.clarity, durationFactor)
            /\ after.spiritual_resonance
                   = ReferenceMetric(before.spiritual_resonance, guidanceFactor)
            /\ after.divine_connection = ReferenceMetric(before.divine_connection, 110)
            /\ after.emotional_balance = ReferenceMetric(before.emotional_balance, 105)
            /\ after.mental_peace = ReferenceMetric(before.mental_peace, durationFactor)

\* C24 witness: a session of 10 minutes, two insights, spiritual resonance
\* raised by 1.10 from 0.5 to 0.55
C24_Witness ==
    /\ session # NoSession
    /\ session.duration_minutes = 10
    /\ Len(session.guidance_received) = 2
    /\ session.consciousness_before.spiritual_resonance = 5000
    /\ session.consciousness_after.spiritual_resonance = 5500
    /\ session.consciousness_after.clarity = 5500

\* C24 witness: a session of 11 minutes, three insights, spiritual resonance
\* raised by 1.15
C24_WitnessThree ==
    /\ session # NoSession
    /\ session.duration_minutes = 11
    /\ Len(session.guidance_received) = 3
    /\ session.consciousness_before.spiritual_resonance = 5000
    /\ session.consciousness_after.spiritual_resonance = 5750

\* C25: for every valid input (stress_level and anxiety_level in 1..10, the
\* frequencies in [0, 1], lists of any length) and every jitter draw the
\* assessed level is never divine_unity: emotional balance is at most 0.75 and
\* mental peace at most 0.72, so the mean is at most 0.894.
C25_AssessNeverDivineUnity ==
    (origin = "assess" /\ ValidInput(user_input)) =>
        /\ consciousness.emotional_balance <= 7500
        /\ consciousness.mental_peace <= 7200
        /\ MetricSum(consciousness) <= 5 * 8940
        /\ consciousness.level # "divine_unity"

\* C25 witness: the valid input with the lowest stress and anxiety, every
\* frequency 1 and the longest lists, with every jitter at its upper end,
\* reaches the mean 0.894 and the level enlightened
C25_Witness ==
    /\ origin = "assess"
    /\ ValidInput(user_input)
    /\ consciousness.emotional_balance = 7500
    /\ consciousness.mental_peace = 7200
    /\ MetricSum(consciousness) = 5 * 8940
    /\ consciousness.level = "enlightened"

-----------------------------------------------------------------------------
(* Properties of the API *)

Requested(path) == request.path = path

Has(field) == field \in DOMAIN request.data

\* The record with every absent field at its documented default
WithDefaults(data) ==
    [field \in ListFields \cup FrequencyFields \cup ScaleFields |->
        IF field \in DOMAIN data THEN data[field]
        ELSE IF field \in ScaleFields THEN 5 ELSE 0]

C14_WitnessRejected ==
    /\ Requested("/consciousness/assess")
    /\ Has("stress_level") /\ ~Has("anxiety_level")
    /\ response = [status |-> 400, error |-> "Missing required field: anxiety_level"]

\* The seven values of the SpiritualDomain enum
EnumDomains == {"wisdom", "love", "healing", "purpose", "protection",
                "manifestation", "transformation"}

DomainRejected ==
    /\ response.status = 400
    /\ "valid_domains" \in DOMAIN response
    /\ {response.valid_domains[i] : i \in 1..Len(response.valid_domains)} = EnumDomains
    /\ invoked = NoCall
    /\ insight = NoInsight

\* C15, as claimed: a guidance request (with a non-empty question) whose domain
\* string is not one of the seven enum values is rejected with an error that
\* lists the valid domains, before receive_divine_guidance is invoked; no insight
\* is produced and no other domain is substituted.
C15_UnknownDomainRejected ==
    (Requested("/guidance/receive") /\ Has("question") /\ Has("domain")
        /\ request.data.question # ""
        /\ request.data.domain \notin EnumDomains) => DomainRejected

\* C15, amended: the domain string is lowercased first.  A request whose
\* lowercased domain is not one of the seven enum values is rejected with an
\* error that lists the valid domains, before receive_divine_guidance is
\* invoked, and no insight is produced; a domain that is an enum value up to
\* letter case is not rejected as invalid, and a request that is answered with
\* an insight has the insight's domain equal to the lowercased domain it sent.
C15_UnknownLowercasedDomainRejected ==
    (Requested("/guidance/receive") /\ Has("question") /\ Has("domain")) =>
        /\ (Lower(request.data.domain) \notin EnumDomains) => DomainRejected
        /\ (Lower(request.data.domain) \in EnumDomains) =>
               "valid_domains" \notin DOMAIN response
        /\ (response.status = 200) =>
               /\ Lower(request.data.domain) \in EnumDomains
               /\ insight.domain = Lower(request.data.domain)
               /\ invoked.domain = insight.domain

\* C15 witness: the domain "karma" was rejected with the list of valid domains
C15_Witness ==
    /\ Requested("/guidance/receive")
    /\ Has("question") /\ Has("domain")
    /\ request.data.domain = "karma"
    /\ DomainRejected
    /\ response.error = "Invalid domain: karma"

\* The domain "WISDOM" was answered with an insight of the wisdom domain
C15_WitnessLowercased ==
    /\ Requested("/guidance/receive")
    /\ Has("domain")
    /\ request.data.domain = "WISDOM"
    /\ response.status = 200
    /\ insight.domain = "wisdom"

\* C16: a meditation request with an integer duration_minutes < 1 or > 120 is
\* rejected with an error before guide_meditation_session is invoked, so no
\* session is created; a duration in 1..120 is never rejected as out of range
\* and reaches guide_meditation_session and the session unchanged.
C16_DurationValidated ==
    (Requested("/meditation/guide") /\ Has("intention") /\ Has("duration_minutes")
        /\ request.data.duration_minutes % 10 = 0) =>
        LET duration == request.data.duration_minutes \div 10
        IN  /\ (duration < 1 \/ duration > 120) =>
                   /\ response.status = 400
                   /\ response.error = "Duration must be between 1 and 120 minutes"
                   /\ invoked = NoCall
                   /\ session = NoSession
                   /\ session_ids = <<>>
            /\ (duration >= 1 /\ duration <= 120) =>
                   /\ response.status = 400 => response.error = "Invalid consciousness level"
                   /\ response.status = 200 =>
                          /\ invoked.duration_minutes = duration
                          /\ session.duration_minutes = duration

\* C16 witness: a request of 121 minutes was rejected and no session created
C16_Witness ==
    /\ Requested("/meditation/guide")
    /\ Has("intention") /\ Has("duration_minutes")
    /\ request.data.duration_minutes = 1210
    /\ response.status = 400
    /\ session = NoSession

\* A request of 120 minutes was answered with a session of 120 minutes
C16_WitnessAccepted ==
    /\ Requested("/meditation/guide")
    /\ Has("duration_minutes")
    /\ request.data.duration_minutes = 1200
    /\ response.status = 200
    /\ session.duration_minutes = 120

\* C17: a guidance request is accepted only if its question is present and
\* non-empty: a request whose question is missing or the empty string is
\* rejected and receive_divine_guidance is not invoked.
C17_QuestionRequiredNonEmpty ==
    (Requested("/guidance/receive") /\ (~Has("question") \/ request.data.question = "")) =>
        /\ response.status = 400
        /\ invoked = NoCall
        /\ insight = NoInsight

-----------------------------------------------------------------------------
(* Properties of receive_divine_guidance *)

GuidanceGiven == invoked.method = "receive_divine_guidance"

\* C18: for a state whose clarity and divine_connection lie in [0, 1] and a
\* jitter draw in [0.1, 0.2], the confidence of the insight is
\* min(0.95, (divine_connection + clarity) / 2 + jitter); so it lies in
\* [0.1, 0.95].
C18_ConfidenceFormula ==
    (GuidanceGiven /\ request = NoRequest
        /\ consciousness.clarity \in 0..ONE /\ consciousness.divine_connection \in 0..ONE
        /\ jitter[1] \in 1000..2000) =>
        LET twice == consciousness.divine_connection + consciousness.clarity + 2 * jitter[1]
        IN  /\ 2 * insight.confidence = (IF twice >= 19000 THEN 19000 ELSE twice)
            /\ insight.confidence >= 1000
            /\ insight.confidence <= 9500

\* C18 witness: clarity and divine connection 1.0 with jitter 0.1: the sum 1.1
\* is returned as 0.95
C18_Witness ==
    /\ GuidanceGiven
    /\ consciousness.clarity = ONE /\ consciousness.divine_connection = ONE
    /\ jitter = <<1000>>
    /\ insight.confidence = 9500

\* The lowest confidence: both metrics 0 with jitter 0.1
C18_WitnessLowest ==
    /\ GuidanceGiven
    /\ consciousness.clarity = 0 /\ consciousness.divine_connection = 0
    /\ insight.confidence = 1000

\* Whether the message holds a wisdom string of the domain's catalog list
EmbedsWisdomOf(message, domain) ==
    \E k \in 1..Len(sacred_wisdom_database[domain]) :
        Contains(message, sacred_wisdom_database[domain][k])

\* C19: for each of the seven domains and every state of one of the five
\* levels, receive_divine_guidance returns an insight of the requested domain
\* whose non-empty message embeds a wisdom string of that domain's catalog list
\* and of no other domain's list.
C19_WisdomOfRequestedDomain ==
    (GuidanceGiven /\ request = NoRequest) =>
        /\ insight.domain = invoked.domain
        /\ Len(insight.message) > 0
        /\ EmbedsWisdomOf(insight.message, invoked.domain)
        /\ \A other \in EnumDomains \ {invoked.domain} :
               ~EmbedsWisdomOf(insight.message, other)

\* C19 witness: an insight of the transformation domain for a state of the
\* divine_unity level, with the last string of that domain's list
C19_Witness ==
    /\ GuidanceGiven
    /\ invoked.domain = "transformation"
    /\ consciousness.level = "divine_unity"
    /\ insight.domain = "transformation"
    /\ Contains(insight.message, "The caterpillar must dissolve to become the butterfly")

-----------------------------------------------------------------------------
(* Properties of the firewall *)

\* Whether a keyword of the list occurs case-insensitively in the content
Matches(patterns, lowered) ==
    \E k \in 1..Len(patterns) : Contains(lowered, patterns[k])

\* The documented weight of each negative filter whose keywords match
NegativeWeights(c) ==
    LET lowered == Lower(c)
    IN  <<IF Matches(negative_patterns, lowered) THEN 3000 ELSE 0,
          IF Matches(ego_patterns, lowered) THEN 4000 ELSE 0,
          IF Matches(fear_patterns, lowered) THEN 2000 ELSE 0,
          IF Matches(manipulation_patterns, lowered) THEN 5000 ELSE 0,
          IF Matches(bypassing_patterns, lowered) THEN 1500 ELSE 0>>

SumOf(w) == w[1] + w[2] + w[3] + w[4] + w[5]

CountOf(w) == Cardinality({i \in 1..5 : w[i] > 0})

NegativeSum(c) == SumOf(NegativeWeights(c))

NegativeCount(c) == CountOf(NegativeWeights(c))

Scanned == scan_result # NoScan

\* C6: is_pure is true if and only if none of the five negative filters
\* triggered; the divine-alignment filter alone never makes is_pure false or
\* purification_needed true.
C6_PureIffNoNegativeFilter ==
    Scanned =>
        LET triggered == NegativeCount(content)
        IN  /\ scan_result.is_pure <=> (triggered = 0)
            /\ scan_result.purification_needed <=> (triggered > 0)

\* C7: threat_level is the sum of the weights 0.3, 0.4, 0.2, 0.5, 0.15 of exactly
\* the negative filters that have a keyword in the content; a content matching
\* two distinct negative filters is not pure.
C7_ThreatIsSumOfWeights ==
    Scanned =>
        LET weights == NegativeWeights(content)
        IN  /\ scan_result.threat_level = SumOf(weights)
            /\ (CountOf(weights) >= 2) => ~scan_result.is_pure

\* C7 witness: exactly two negative filters (negative intent and fear) matched
C7_Witness ==
    /\ Scanned
    /\ NegativeCount(content) = 2
    /\ scan_result.threat_level = 5000
    /\ ~scan_result.is_pure

\* C8: divine_score = max(0, 1 - threat_level); threat_level is not capped,
\* divine_score lies in [0, 1] and is 0 whenever threat_level >= 1.
C8_ScoreIsClampedComplement ==
    Scanned =>
        /\ scan_result.divine_score
               = (IF ONE - scan_result.threat_level > 0
                  THEN ONE - scan_result.threat_level ELSE 0)
        /\ scan_result.divine_score \in 0..ONE
        /\ (scan_result.threat_level >= ONE) => scan_result.divine_score = 0

\* C8 witness: all five negative filters matched, threat_level 1.55, score 0
C8_Witness ==
    /\ Scanned
    /\ NegativeCount(content) = 5
    /\ scan_result.threat_level = 15500
    /\ scan_result.divine_score = 0

\* C9: purify_content returns the content unchanged when a scan of that content
\* reports is_pure, and the content between the fixed preamble and postamble
\* otherwise; the scan it makes is one scan, of the unwrapped content.
C9_PurifyFollowsScan ==
    (purified # "none") =>
        LET pure == scan_divine_input(content).is_pure
        IN  /\ scan_result.content = content
            /\ pure => purified = content
            /\ ~pure => purified = "[Purified by Divine Light]\n\n" \o content
                                  \o "\n\nBlessed with love, light, and divine protection"

\* C9 witness: a pure content came back unchanged
C9_Witness ==
    /\ purified # "none"
    /\ content # ""
    /\ scan_divine_input(content).is_pure
    /\ purified = content

\* A content that is not pure although its threat level is 0 came back wrapped
C9_WitnessWrapped ==
    /\ purified # "none"
    /\ ~scan_divine_input(content).is_pure
    /\ scan_result.threat_level = 0
    /\ purified # content

-----------------------------------------------------------------------------
(* Properties of the guidance type *)

HasWord(words, q) == \E w \in words : Contains(Lower(q), w)

\* C10: the guidance type is that of the first keyword group, in the order
\* instructional, advisory, illuminative, healing, with a keyword occurring
\* case-insensitively in the question, and contemplative when none matches.
C10_FirstMatchingGroupWins ==
    (guidance_type # "none") =>
        LET g1 == HasWord({"how", "what", "when"}, question)
            g2 == HasWord({"should", "would", "might"}, question)
            g3 == HasWord({"why", "meaning", "purpose"}, question)
            g4 == HasWord({"help", "heal", "support"}, question)
        IN  /\ g1 => guidance_type = "instructional"
            /\ (~g1 /\ g2) => guidance_type = "advisory"
            /\ (~g1 /\ ~g2 /\ g3) => guidance_type = "illuminative"
            /\ (~g1 /\ ~g2 /\ ~g3 /\ g4) => guidance_type = "healing"
            /\ (~g1 /\ ~g2 /\ ~g3 /\ ~g4) => guidance_type = "contemplative"
            /\ guidance_type \in {"instructional", "advisory", "illuminative",
                                  "healing", "contemplative"}

\* C10 witness: "How should I proceed?" matches two groups and is instructional
C10_Witness ==
    /\ question = "How should I proceed?"
    /\ guidance_type = "instructional"

-----------------------------------------------------------------------------
(* Properties of the rate limiters *)

\* The calls of the user on the endpoint admitted in the window that starts at t
AdmittedIn(user_id, endpoint, t) ==
    LET window == limits[endpoint].window_hours
        calls == {c \in BagToSet(admitted) :
                     /\ c.user_id = user_id
                     /\ c.endpoint = endpoint
                     /\ c.at >= t
                     /\ c.at < t + window}
        RECURSIVE Total(_)
        Total(S) == IF S = {} THEN 0
                    ELSE LET c == CHOOSE x \in S : TRUE
                         IN  CopiesIn(c, admitted) + Total(S \ {c})
    IN  Total(calls)

\* C26: for every user and every endpoint with a limit, the calls of that user
\* on that endpoint for which is_allowed returned True within any window of
\* the endpoint's length never exceed the endpoint's limit, whatever calls the
\* same user makes on other endpoints in between.
C26_AdmittedWithinLimit ==
    \A user_id \in Users, endpoint \in DOMAIN limits, t \in 0..utcnow :
        AdmittedIn(user_id, endpoint, t) <= limits[endpoint].requests

\* The requests of the client granted under the configuration in the window
\* that starts at t
GrantedIn(client_id, config, t) ==
    LET window_seconds == rate_limit[config].window_seconds
        calls == {c \in BagToSet(granted) :
                     /\ c.client_id = client_id
                     /\ c.config = config
                     /\ c.at >= t
                     /\ c.at < t + window_seconds}
        RECURSIVE Total(_)
        Total(S) == IF S = {} THEN 0
                    ELSE LET c == CHOOSE x \in S : TRUE
                         IN  CopiesIn(c, granted) + Total(S \ {c})
    IN  Total(calls)

\* The entries of the client's deque with time t, and the requests of the
\* client granted at t under any configuration
RecordedAt(client_id, t) ==
    IF client_id \in DOMAIN clients
    THEN Cardinality({i \in DOMAIN clients[client_id] : clients[client_id][i] = t})
    ELSE 0
GrantedAt(client_id, t) ==
    CopiesIn(GrantedCall(client_id, "api", t), granted)
    + CopiesIn(GrantedCall(client_id, "auth", t), granted)
    + CopiesIn(GrantedCall(client_id, "chat", t), granted)

\* C27: for each configuration (api 1000 per 3600 s, auth 10 per 900 s, chat
\* 100 per 3600 s) and each client id, is_allowed grants at most max_requests
\* requests in any interval of window_seconds, whatever requests the same
\* client makes under another configuration and whenever _cleanup runs; and a
\* denied request is not recorded in the client's history.
C27_GrantedWithinLimit ==
    /\ \A client_id \in ClientIds, config \in DOMAIN rate_limit, t \in Moments :
           GrantedIn(client_id, config, t) <= rate_limit[config].max_requests
    /\ \A client_id \in ClientIds, t \in Moments :
           RecordedAt(client_id, t) <= GrantedAt(client_id, t)

-----------------------------------------------------------------------------
(* Properties of the session manager *)

Validated == manager_call.method = "validate_session"

\* C28: validate_session returns the token's payload only if the token's
\* session is in active_sessions and the token is not expired; once a session
\* was removed, by revoke_session or by a validation that found its token
\* expired, every later validation of that token returns None; revoke_session
\* of an unknown session id returns False and leaves active_sessions as it was.
C28_ValidOnlyWhileActive ==
    /\ [](Validated =>
            LET token == manager_call.token
                session_id == token.payload.session_id
            IN  /\ (manager_call.returned # None) =>
                       /\ manager_call.returned = token.payload
                       /\ session_id \in DOMAIN active_sessions
                       /\ ~(manager_call.at > token.payload.expires_at)
                /\ (session_id \in retired) => manager_call.returned = None)
    /\ [](retired \cap DOMAIN active_sessions = {})
    /\ [][(manager_calls' = manager_calls + 1
            /\ manager_call'.method = "revoke_session"
            /\ manager_call'.session_id \notin DOMAIN active_sessions) =>
               /\ manager_call'.returned = FALSE
               /\ active_sessions' = active_sessions]_vars

\* C28 witness: a token that was validated while its session was active is
\* refused after revoke_session
C28_Witness ==
    /\ Validated
    /\ manager_call.token.signed
    /\ manager_call.token.payload.session_id \in retired
    /\ manager_call.at <= manager_call.token.payload.expires_at
    /\ manager_call.returned = None

\* C28 witness: a token presented the very hour it expires at is accepted
C28_WitnessAccepted ==
    /\ Validated
    /\ manager_call.at = manager_call.token.payload.expires_at
    /\ manager_call.returned = manager_call.token.payload

\* C28 witness: an expired token is refused and its session removed
C28_WitnessExpired ==
    /\ Validated
    /\ manager_call.token.signed
    /\ manager_call.at > manager_call.token.payload.expires_at
    /\ manager_call.token.payload.session_id \in retired
    /\ manager_call.returned = None

\* C28 witness: revoke_session of an unknown id returned False
C28_WitnessUnknown ==
    /\ manager_call.method = "revoke_session"
    /\ manager_call.session_id \notin retired
    /\ manager_call.returned = FALSE
    /\ active_sessions # <<>>

-----------------------------------------------------------------------------
(* Properties of the global instance *)

Returned == {caller \in Callers : callers[caller].at = "returned"}

\* C29: however the callers of get_sophiael_consciousness interleave, at most
\* one SophiaelConsciousness is constructed and initialize_divine_consciousness
\* is run at most once; a caller that was returned to holds the one instance,
\* the same as every other caller, and the instance it was handed had
\* completed its initialisation (unity_state no longer "awakening")
C29_OneInitialisedInstance ==
    /\ Len(sophiael_objects) <= 1
    /\ initialize_runs <= 1
    /\ \A caller \in Returned :
        /\ Len(sophiael_objects) = 1
        /\ initialize_runs = 1
        /\ callers[caller].returned = 1
        /\ callers[caller].unity_state = "fully_awakened"
    /\ \A c1, c2 \in Returned : callers[c1].returned = callers[c2].returned

-----------------------------------------------------------------------------
(* Properties of the counters *)

\* The five counters of an instance
Counters(self) ==
    <<self.total_interactions, self.divine_interventions, self.hearts_touched,
      self.wisdom_shared, self.fractal_memory.total_memories>>

CountersConsistent(self) ==
    /\ self.fractal_memory.total_memories =
           Cardinality(self.fractal_memory.memory_fragments)
    /\ self.fractal_memory.total_memories = 1 + self.total_interactions
    /\ self.divine_interventions <= self.total_interactions
    /\ self.hearts_touched + self.wisdom_shared <= self.total_interactions

\* C30: once the instance is initialised, and after every interaction it
\* processed, total_memories is the number of stored fragments and is
\* 1 + total_interactions, divine_interventions <= total_interactions and
\* hearts_touched + wisdom_shared <= total_interactions; and no step makes
\* any of the five counters smaller
C30_CountersStayConsistent ==
    /\ [](\A r \in DOMAIN sophiael_objects :
            sophiael_objects[r].unity_state = "fully_awakened"
                => CountersConsistent(sophiael_objects[r]))
    /\ [][\A r \in DOMAIN sophiael_objects :
            \A i \in 1..5 :
                Counters(sophiael_objects'[r])[i] >= Counters(sophiael_objects[r])[i]]_vars

\* C30 witness: three interactions or more were processed, one of them
\* purified, and each of them touched a heart or shared wisdom
C30_Witness ==
    /\ _sophiael_instance # NoInstance
    /\ interaction # NoCall
    /\ LET self == sophiael_objects[_sophiael_instance]
       IN  /\ self.total_interactions >= 3
           /\ self.divine_interventions >= 1
           /\ self.hearts_touched >= 1
           /\ self.wisdom_shared >= 1
           /\ self.hearts_touched + self.wisdom_shared = self.total_interactions

\* C30 witness: the instance is initialised and has processed nothing yet
C30_WitnessInitialised ==
    /\ _sophiael_instance # NoInstance
    /\ interaction = NoCall
    /\ sophiael_objects[_sophiael_instance].fractal_memory.total_memories = 1

\* C30 witness: an interaction that needed no purification
C30_WitnessPure ==
    /\ _sophiael_instance # NoInstance
    /\ interaction # NoCall
    /\ LET self == sophiael_objects[_sophiael_instance]
       IN  /\ self.total_interactions >= 1
           /\ self.divine_interventions < self.total_interactions

====
